---- MODULE Spec2Model ----
(***************************************************************************)
(* State-machine model of the ezcopper purchase bot: the Amazon purchase   *)
(* flow (app/amazon_flow.py, AmazonFlow), the queue worker that drives it  *)
(* (AmazonWorker), and the producers and controls around it (app/main.py). *)
(*                                                                         *)
(* Text is modelled as a sequence of one-character strings so that the     *)
(* code's strip()/lower()/`in` are computed, not assumed.  An optional     *)
(* value (Python None) is a set with at most one element; a missing or     *)
(* empty text is the empty sequence (both are falsy in the code's tests).  *)
(* Prices are integers in cents.                                           *)
(***************************************************************************)
EXTENDS Integers, Sequences, FiniteSets, TLC

(* ------------------------------ bounds -------------------------------- *)

\* Items ever put on the work queue in one run.
MaxItems == 2
\* Offer cards in the offer list of a multi-offer (AOD) panel.
MaxCards == 2

(* ------------------------- program constants -------------------------- *)

MAX_RETRIES == 3

(* -------------------------------- text -------------------------------- *)

UpperAlpha ==
    <<"A","B","C","D","E","F","G","H","I","J","K","L","M",
      "N","O","P","Q","R","S","T","U","V","W","X","Y","Z">>

LowerAlpha ==
    <<"a","b","c","d","e","f","g","h","i","j","k","l","m",
      "n","o","p","q","r","s","t","u","v","w","x","y","z">>

LowerChar(c) ==
    IF \E i \in 1..26 : UpperAlpha[i] = c
    THEN LowerAlpha[CHOOSE i \in 1..26 : UpperAlpha[i] = c]
    ELSE c

\* str.lower()
Lower(s) == [i \in 1..Len(s) |-> LowerChar(s[i])]

RECURSIVE LStrip(_)
LStrip(s) == IF s # <<>> /\ Head(s) = " " THEN LStrip(Tail(s)) ELSE s

RECURSIVE RStrip(_)
RStrip(s) ==
    IF s # <<>> /\ s[Len(s)] = " " THEN RStrip(SubSeq(s, 1, Len(s) - 1)) ELSE s

\* str.strip()
Strip(s) == RStrip(LStrip(s))

\* sub in s
Contains(s, sub) ==
    \E i \in 0..(Len(s) - Len(sub)) : SubSeq(s, i + 1, i + Len(sub)) = sub

NoText == <<>>

amazon_com == <<"a","m","a","z","o","n",".","c","o","m">>
amazon == <<"a","m","a","z","o","n">>
amazon_resale == <<"a","m","a","z","o","n"," ","r","e","s","a","l","e">>
amazon_warehouse ==
    <<"a","m","a","z","o","n"," ","w","a","r","e","h","o","u","s","e">>

\* Seller texts a page can show.
AmazonCom == <<"A","m","a","z","o","n",".","c","o","m">>
AmazonUpper == <<"A","M","A","Z","O","N",".","C","O","M">>
AmazonWarehouse ==
    <<"A","m","a","z","o","n"," ","W","a","r","e","h","o","u","s","e">>
ThirdParty == <<"T","h","i","r","d"," ","P","a","r","t","y"," ","C","o">>
AmazonPadded == <<" ","a","m","a","z","o","n",".","c","o","m"," ">>
AmazonResale == <<"A","m","a","z","o","n"," ","R","e","s","a","l","e">>
AmazonUS == <<"A","m","a","z","o","n"," ","U","S">>
AmazonAlone == <<"A","M","A","Z","O","N">>
SomeOtherLLC == <<"S","o","m","e"," ","O","t","h","e","r"," ","L","L","C">>

\* The texts a seller field is drawn from when a predicate is studied on
\* its own.
SellerTexts ==
    { NoText, AmazonCom, AmazonUpper, AmazonPadded, AmazonWarehouse, AmazonResale,
      AmazonUS, AmazonAlone, ThirdParty, SomeOtherLLC }

(* ----------------------------- SellerInfo ------------------------------ *)

SellerInfo(ships_from, sold_by) ==
    [ships_from |-> ships_from, sold_by |-> sold_by]

\* A shipper test that accepts every text containing the brand token.
ships_from_contains_amazon(info) ==
    IF info.ships_from = NoText
    THEN FALSE
    ELSE Contains(Lower(info.ships_from), amazon)

is_amazon_shipper(info) ==
    IF info.ships_from = NoText
    THEN FALSE
    ELSE Lower(Strip(info.ships_from)) = amazon_com

is_valid_seller(info) ==
    IF info.sold_by = NoText
    THEN FALSE
    ELSE Contains(Lower(info.sold_by), amazon)

_is_valid_amazon_offer(ships_from, sold_by) ==
    LET is_valid_shipper ==
            ships_from # NoText /\ Lower(Strip(ships_from)) = amazon_com
        is_valid_sold_by ==
            sold_by # NoText
            /\ \E keyword \in {amazon_com, amazon_resale, amazon_warehouse} :
                   Contains(Lower(sold_by), keyword)
    IN  is_valid_shipper /\ is_valid_sold_by

(* ------------------------- the retail site ---------------------------- *)

\* Displayed prices, in cents (99.99 and 104.99).
Prices == {9999, 10499}

Offer(ships_from, sold_by, price) ==
    [ships_from |-> ships_from, sold_by |-> sold_by, price |-> price]

\* Sellers of the main buy box of a product page: Amazon itself, a third
\* party fulfilled by Amazon, a third party shipping itself.
BuyboxSellers ==
    { SellerInfo(AmazonCom, AmazonCom),
      SellerInfo(AmazonCom, ThirdParty),
      SellerInfo(ThirdParty, ThirdParty) }

PinnedSellers ==
    { SellerInfo(AmazonCom, AmazonCom), SellerInfo(ThirdParty, ThirdParty) }

OffersOf(sellers, prices) ==
    { Offer(s.ships_from, s.sold_by, p) : s \in sellers, p \in prices }

LowPrice == CHOOSE p \in Prices : \A q \in Prices : p <= q

\* The buy box and the pinned offer show the lower price; an Amazon offer
\* card shows either price, a third-party card the lower one.
BuyboxOffers == OffersOf(BuyboxSellers, {LowPrice})

PinnedOffers == OffersOf(PinnedSellers, {LowPrice})

CardOffers ==
    OffersOf({SellerInfo(AmazonUpper, AmazonWarehouse)}, Prices)
    \cup OffersOf({SellerInfo(ThirdParty, ThirdParty)}, {LowPrice})

\* Optional values: a set with at most one element.
Opt(S) == {{}} \cup { {x} : x \in S }

SeqsUpTo(S, n) == UNION { [1..k -> S] : k \in 0..n }

\* What the site serves for a product URL: the main buy box (if any), the
\* pinned offer of the all-offers panel (if any) and the panel's offer cards
\* in document order.  Which of these elements is visible at a given probe
\* is decided at the probe.
Sites ==
    [ buybox : Opt(BuyboxOffers),
      pinned : Opt(PinnedOffers),
      cards  : SeqsUpTo(CardOffers, MaxCards) ]

\* The offer at index i of the all-offers panel: 0 is the pinned offer,
\* 1..n the cards of the offer list.
AodIndexes(site) ==
    (IF site.pinned = {} THEN {} ELSE {0}) \cup (1..Len(site.cards))

AodOffer(site, i) ==
    IF i = 0 THEN CHOOSE o \in site.pinned : TRUE ELSE site.cards[i]

(* ------------------------------ FlowState ----------------------------- *)

IDLE == "idle"
OPENING_PRODUCT == "opening_product"
ADDING_TO_CART == "adding_to_cart"
WAITING_CART_CONFIRMATION == "waiting_cart_confirmation"
PROCEEDING_TO_CHECKOUT == "proceeding_to_checkout"
ON_CHECKOUT_PAGE == "on_checkout_page"
PLACING_ORDER == "placing_order"
ORDER_PENDING_CONFIRMATION == "order_pending_confirmation"
ORDER_PLACED == "order_placed"
ERROR == "error"
COMPLETE == "complete"

\* BotState values (app/events.py) that are not also FlowState values.
DISCORD_MONITORING == "discord_monitoring"
PAUSED == "paused"

\* state_mapping of _update_state: FlowState -> BotState
state_mapping(state) ==
    CASE state = IDLE -> "idle"
      [] state = OPENING_PRODUCT -> "amazon_opening"
      [] state = ADDING_TO_CART -> "amazon_add_to_cart"
      [] state = WAITING_CART_CONFIRMATION -> "amazon_add_to_cart"
      [] state = PROCEEDING_TO_CHECKOUT -> "amazon_proceed_checkout"
      [] state = ON_CHECKOUT_PAGE -> "amazon_proceed_checkout"
      [] state = PLACING_ORDER -> "amazon_place_order_pending"
      [] state = ORDER_PENDING_CONFIRMATION -> "amazon_place_order_pending"
      [] state = ORDER_PLACED -> "amazon_order_placed"
      [] state = ERROR -> "error"
      [] state = COMPLETE -> DISCORD_MONITORING
      [] OTHER -> "idle"

FlowResult(success, state, message) ==
    [success |-> success, state |-> state, message |-> message]

(* ------------------------------ work items ---------------------------- *)

\* A work item: the URL (its aod=1 flag or emptiness, and what the site
\* serves for it), the expected price (parsed.price, optional) and where the
\* item came from.
WorkItem(id, kind, site, price, source) ==
    [id |-> id, url |-> kind, site |-> site, price |-> price, source |-> source]

\* _is_aod_url: the URL carries aod=1
_is_aod_url(url) == url = "aod"

(* --------------------------- activity store --------------------------- *)

\* create_activity_item: a record under a message id, result still pending
\* (of a record's fields the message id and the result status are kept)
create_activity_item(message_id) ==
    [message_id |-> message_id, result_status |-> "pending"]

add_activity_item(items, item) == items \cup {item}

\* The records stored under a message id
ActivityOf(items, message_id) == { it \in items : it.message_id = message_id }

\* update_activity_result: the result status of the record with the message
\* id is overwritten; without such a record nothing is written.
update_activity_result(items, message_id, result_status) ==
    { IF it.message_id = message_id
      THEN [it EXCEPT !.result_status = result_status]
      ELSE it : it \in items }

(* ------------------------------- state -------------------------------- *)

VARIABLES
    queue,      \* url_queue (app/main.py): the items waiting, oldest first
    next_id,    \* the number the next enqueued item gets (enqueue order)
    worker,     \* AmazonWorker: position in start(), _is_running, _is_paused
    flow,       \* the AmazonFlow instance whose execute() is in progress
    browser,    \* BrowserManager: _is_running, the Amazon page, tracing
    broker,     \* EventBroker: current_state, current_urls, error events
    executing,  \* ids of the items whose execute() was entered and not left
    started,    \* ids of the items a flow was started for, in start order
    finished,   \* ids of the items whose execute() returned or raised
    faulted,    \* ids of the items whose processing raised in the worker
    activity,   \* the activity store (/data/activity.json): its records
    traversal,  \* one call of offer traversal: its page, probes and result
    call,       \* one call of a function of the flow: arguments and result
    watcher     \* DiscordWatcher: dry_run, _seen_message_ids, the polls under way

vars ==
    <<queue, next_id, worker, flow, browser, broker,
      executing, started, finished, faulted, activity, traversal, call, watcher>>

history == <<executing, started, finished, faulted>>

NoItem == WorkItem(0, "", [buybox |-> {}, pinned |-> {}, cards |-> <<>>], {}, "")

\* AmazonFlow.__init__, and the locals of execute()
NewFlow(item, confirm_final_order, pc) ==
    [ pc |-> pc,
      item |-> item,
      confirm_final_order |-> confirm_final_order,
      state |-> IDLE,
      seller_info |-> {},
      price_info |-> {},
      page |-> FALSE,
      is_aod |-> FALSE,
      aod_offer |-> {},
      used_buy_now |-> FALSE,
      attempt |-> 0,
      result |-> {},
      raising |-> FALSE,
      confirmation |-> "none",
      clicks |-> <<>>,
      events |-> <<>> ]

NoFlow == NewFlow(NoItem, TRUE, "none")

Click(ctl, offer) == [ctl |-> ctl, offer |-> offer]

(* --------------------------- Element Resolver -------------------------- *)

\* SELECTORS["add_to_cart"], in list order, each selector by what it
\* denotes: "aod" any add-to-cart control of the all-offers panel, "pinned"
\* the pinned offer's, "list" the offer list's, "main" the buy box's
\* add-to-cart button, "buy_now" the buy box's buy-now button.
AddToCartSelectors ==
    << "aod", "pinned", "list", "aod", "pinned",
       "main", "main",
       "buy_now", "buy_now",
       "aod", "pinned", "list", "list", "aod", "aod", "list", "aod", "aod",
       "main", "main", "main", "main", "main", "main" >>

\* buy_now_selectors of _try_buy_now
BuyNowSelectors == << "buy_now", "buy_now", "buy_now", "buy_now" >>

SidePanelCheckoutSelectors ==
    << "side_checkout", "side_checkout", "side_checkout", "side_checkout",
       "side_checkout" >>

GoToCartSelectors == << "go_to_cart", "go_to_cart", "go_to_cart", "go_to_cart" >>

CartCheckoutSelectors ==
    << "cart_checkout", "cart_checkout", "cart_checkout", "cart_checkout" >>

PlaceOrderSelectors ==
    << "place_order", "place_order", "place_order", "place_order",
       "place_order" >>

\* The element a selector's .first locator denotes on the page, if any:
\* P the pinned offer's add-to-cart input, L the first offer card's, M the
\* buy box's add-to-cart button, B its buy-now button; the cart, checkout
\* and order controls are not tied to an offer.
Resolve(site, selector) ==
    CASE selector = "pinned" -> IF site.pinned # {} THEN {"P"} ELSE {}
      [] selector = "list" -> IF site.cards # <<>> THEN {"L"} ELSE {}
      [] selector = "aod" ->
            IF site.pinned # {} THEN {"P"}
            ELSE IF site.cards # <<>> THEN {"L"} ELSE {}
      [] selector = "main" -> IF site.buybox # {} THEN {"M"} ELSE {}
      [] selector = "buy_now" -> IF site.buybox # {} THEN {"B"} ELSE {}
      [] OTHER -> {selector}

Elements(site, selectors) ==
    UNION { Resolve(site, selectors[i]) : i \in 1..Len(selectors) }

\* The offer a purchase control belongs to.
OfferOf(site, element) ==
    CASE element = "P" -> site.pinned
      [] element = "L" -> {site.cards[1]}
      [] element \in {"M", "B"} -> site.buybox
      [] OTHER -> {}

ControlOf(element) ==
    CASE element \in {"P", "L", "M"} -> "add_to_cart"
      [] element = "B" -> "buy_now"
      [] element \in {"side_checkout", "cart_checkout"} -> "checkout"
      [] OTHER -> element

\* _find_and_click: the index of the selector whose click makes the method
\* return True, 0 when it returns False.  The loop takes the selectors in
\* list order; a candidate that is not visible, or whose click raises, is
\* passed over (except Exception: continue).  The publish of the step
\* event stands in the same try block: when it raises, the click before it
\* has already been made and the loop goes on with the next selector.
\* visible: the elements a probe finds visible; raises: the elements whose
\* click raises; publish_raises: the publish after a click raises.
_find_and_click(site, selectors, visible, raises, publish_raises) ==
    LET hit(i) == Resolve(site, selectors[i]) \cap (visible \ raises) # {}
    IN  IF ~publish_raises /\ \E i \in 1..Len(selectors) : hit(i)
        THEN CHOOSE i \in 1..Len(selectors) :
                 hit(i) /\ \A j \in 1..(i - 1) : ~hit(j)
        ELSE 0

\* The selectors one _find_and_click call clicks, in the order of the
\* clicks: every selector up to the returning one whose element is visible
\* and whose click does not raise.
clicked_selectors(site, selectors, visible, raises, publish_raises) ==
    LET hit(i) == Resolve(site, selectors[i]) \cap (visible \ raises) # {}
        i == _find_and_click(site, selectors, visible, raises, publish_raises)
        last == IF i = 0 THEN Len(selectors) ELSE i
    IN  SelectSeq([k \in 1..last |-> k], hit)

ClickedElement(site, selectors, i) ==
    CHOOSE e \in Resolve(site, selectors[i]) : TRUE

(* ---------------------------- Offer Traversal -------------------------- *)

\* _extract_aod_offer_info: the (ships_from, sold_by) read from an offer
\* element; when its seller containers are not visible both stay None (an
\* offer with either field missing fails the validity test all the same).
_extract_aod_offer_info(offer, fields_visible) ==
    IF fields_visible
    THEN SellerInfo(Strip(offer.ships_from), Strip(offer.sold_by))
    ELSE SellerInfo(NoText, NoText)

\* A traversal that walks the panel from its end: it returns the last
\* offer that is valid and has a visible control.
_find_last_valid_offer(site, probe) ==
    LET info(i) == _extract_aod_offer_info(AodOffer(site, i), i \in probe.fields)
        valid(i) == _is_valid_amazon_offer(info(i).ships_from, info(i).sold_by)
        usable(i) == /\ valid(i)
                     /\ i \in probe.button \ probe.raises
                     /\ i = 0 => probe.pinned
        found == { i \in AodIndexes(site) : usable(i) }
    IN  IF probe.no_offers \/ found = {} THEN {}
        ELSE {CHOOSE i \in found : \A j \in found : j <= i}

\* _find_valid_amazon_offer_in_aod: the index of the offer returned (0 the
\* pinned offer, i the i-th card), as an optional value.  probe.no_offers:
\* the no-offers message is visible; probe.pinned: the pinned offer is
\* visible; probe.fields: the offers whose seller containers are visible;
\* probe.button: the offers whose own add-to-cart control is visible;
\* probe.raises: the offers with a visible control during whose selection
\* an exception is raised (it is caught and logged, and the traversal goes
\* on with the next offer).
_find_valid_amazon_offer_in_aod(site, probe) ==
    LET info(i) == _extract_aod_offer_info(AodOffer(site, i), i \in probe.fields)
        valid(i) == _is_valid_amazon_offer(info(i).ships_from, info(i).sold_by)
        usable(i) == valid(i) /\ i \in probe.button \ probe.raises
        cards == 1..Len(site.cards)
    IN  IF probe.no_offers THEN {}
        ELSE IF site.pinned # {} /\ probe.pinned /\ usable(0) THEN {0}
        ELSE IF \E i \in cards : usable(i)
        THEN {CHOOSE i \in cards : usable(i) /\ \A j \in 1..(i - 1) : ~usable(j)}
        ELSE {}

AodProbes(site) ==
    UNION { [ no_offers : BOOLEAN,
              pinned : BOOLEAN,
              fields : SUBSET AodIndexes(site),
              button : {visible},
              raises : SUBSET visible ] : visible \in SUBSET AodIndexes(site) }

\* One call of the traversal on a page under given probes, before (done
\* FALSE) and after it returned.
Traversal(site, probe) ==
    [site |-> site, probe |-> probe, result |-> {}, done |-> FALSE]

\* A watcher that is not running.
NoWatcher == [dry_run |-> FALSE, seen |-> {}, polls |-> <<>>]

\* No call of a function under study
NoCall == [done |-> FALSE]

NoTraversal ==
    Traversal(NoItem.site,
              [no_offers |-> FALSE, pinned |-> FALSE, fields |-> {}, button |-> {},
               raises |-> {}])

(* --------------------------- Seller and price -------------------------- *)

\* _extract_seller_info_standard on the buy box: by the seller-profile link
\* when it is visible (both fields are the link's text, or "Amazon.com" when
\* the text contains "amazon"), else by the tabular buy box rows.
_extract_seller_info_standard(site, link_visible, rows_visible) ==
    IF site.buybox = {} THEN SellerInfo(NoText, NoText)
    ELSE LET o == CHOOSE x \in site.buybox : TRUE
             seller_name == Strip(o.sold_by)
         IN  IF link_visible /\ Len(seller_name) > 1
             THEN IF Contains(Lower(seller_name), amazon)
                  THEN SellerInfo(AmazonCom, AmazonCom)
                  ELSE SellerInfo(seller_name, seller_name)
             ELSE IF rows_visible
             THEN SellerInfo(Strip(o.ships_from), Strip(o.sold_by))
             ELSE SellerInfo(NoText, NoText)

\* _extract_price: SELECTORS["aod_price"] read the pinned offer's price,
\* SELECTORS["standard_price"] the buy box's; None when no price element is
\* visible.
_extract_price(site, is_aod, price_visible) ==
    LET shown == IF is_aod THEN site.pinned ELSE site.buybox
    IN  IF price_visible THEN { o.price : o \in shown } ELSE {}

\* A laxer price test: any extracted price is accepted.
PriceExtracted(displayed_price, expected_price) == displayed_price # {}

\* A price test with a tolerance of one cent.
PriceWithinACent(displayed_price, expected_price) ==
    \E p \in displayed_price : p - expected_price \in -1..1

\* The test of _step_validate_price: a price was extracted and equals the
\* expected one.
PriceMatches(displayed_price, expected_price) ==
    displayed_price # {} /\ displayed_price = {expected_price}

(* ------------------------- AmazonFlow.execute -------------------------- *)

\* _update_state: the flow's own state, mirrored into the broker's
\* process-wide status.
_update_state(f, state) == [f EXCEPT !.state = state]

SyncStatus(bk, state) == [bk EXCEPT !.current_state = state_mapping(state)]

Emit(f, event) == [f EXCEPT !.events = Append(@, event)]

\* _handle_error: state Error, screenshot, trace stopped and saved, ERROR
\* event "amazon_<stage>_error" published.
_handle_error(f, error_event) == Emit(_update_state(f, ERROR), error_event)

\* A step's failure result: execute returns it through the finally block.
Return(f, result) == [f EXCEPT !.result = {result}, !.pc = "finally"]

notFlow ==
    <<queue, next_id, worker, executing, started, finished, faulted, activity,
      traversal, call, watcher>>

outside == <<queue, next_id, worker, started, faulted, activity, traversal, call, watcher>>

\* execute, before the guarded block: current_urls = [url], then
\* _log_step("flow_started"), whose activity-store write can raise; nothing
\* guards it, so the exception leaves execute.
execute_start ==
    /\ flow.pc = "start"
    /\ broker' = [broker EXCEPT !.current_urls = {flow.item.id}]
    /\ \E fault \in BOOLEAN :
          /\ flow' = [flow EXCEPT !.pc = IF fault THEN "raised" ELSE "setup",
                                  !.raising = fault]
          /\ executing' = IF fault THEN executing \ {flow.item.id} ELSE executing
          /\ finished' = IF fault THEN finished \cup {flow.item.id} ELSE finished
    /\ UNCHANGED <<browser, outside>>

\* start_tracing, get_or_create_amazon_page, _is_aod_url
execute_setup ==
    /\ flow.pc = "setup"
    /\ browser' = [browser EXCEPT !.tracing = TRUE, !.amazon_page = TRUE]
    /\ flow' = [flow EXCEPT !.page = TRUE,
                            !.is_aod = _is_aod_url(flow.item.url),
                            !.pc = "open_product"]
    /\ UNCHANGED <<broker, notFlow>>

\* The steps in which a call that is not guarded inside the step can raise
\* (a _log_step write, a navigation error other than a timeout): the
\* exception reaches execute's handler.
FaultPcs ==
    { "setup", "open_product", "check_unavailable", "see_all", "aod",
      "validate_seller", "validate_price", "add", "cart_confirmation",
      "proceed_to_checkout", "on_checkout" }

flow_exception ==
    /\ flow.pc \in FaultPcs
    /\ flow' = [flow EXCEPT !.pc = "except"]
    /\ UNCHANGED <<browser, broker, notFlow>>

\* _step_open_product: one navigation attempt of its retry loop; after
\* MAX_RETRIES attempts _handle_error and a failure result.
_step_open_product ==
    /\ flow.pc = "open_product"
    /\ IF flow.attempt < MAX_RETRIES
       THEN \E loaded \in BOOLEAN :
              /\ flow' = IF loaded
                         THEN [_update_state(flow, OPENING_PRODUCT)
                                 EXCEPT !.pc = "check_unavailable", !.attempt = 0]
                         ELSE [_update_state(flow, OPENING_PRODUCT)
                                 EXCEPT !.attempt = @ + 1]
              /\ broker' = IF flow.attempt = 0
                           THEN SyncStatus(broker, OPENING_PRODUCT)
                           ELSE broker
              /\ UNCHANGED browser
       ELSE /\ flow' = Return([_handle_error(flow, "amazon_open_product_error")
                                 EXCEPT !.attempt = 0],
                              FlowResult(FALSE, ERROR, "Failed to load product page"))
            /\ broker' = SyncStatus(broker, ERROR)
            /\ browser' = [browser EXCEPT !.tracing = FALSE]
    /\ UNCHANGED notFlow

\* _check_currently_unavailable, and execute's return on it
_check_currently_unavailable ==
    /\ flow.pc = "check_unavailable"
    /\ \E unavailable \in BOOLEAN :
          flow' = IF unavailable
                  THEN Return(flow, FlowResult(FALSE, ERROR,
                                               "Product is currently unavailable"))
                  ELSE [flow EXCEPT !.pc = IF flow.is_aod THEN "aod" ELSE "see_all"]
    /\ UNCHANGED <<browser, broker, notFlow>>

\* _check_and_click_see_all_options (standard pages): when the link is
\* visible it is clicked and the flow continues as on an AOD page.
_check_and_click_see_all_options ==
    /\ flow.pc = "see_all"
    /\ \E clicked \in BOOLEAN :
          flow' = IF clicked
                  THEN [flow EXCEPT !.is_aod = TRUE, !.pc = "aod",
                                    !.clicks = Append(@, Click("see_all", {}))]
                  ELSE [flow EXCEPT !.pc = "validate_seller"]
    /\ UNCHANGED <<browser, broker, notFlow>>

\* The SellerInfo a step stored in the flow: its two fields, and whether its
\* raw_text contains "no featured offers".
Stored(seller_info, no_featured_offers) ==
    [ships_from |-> seller_info.ships_from, sold_by |-> seller_info.sold_by,
     no_featured_offers |-> no_featured_offers]

AfterSeller(f) ==
    [f EXCEPT !.pc = IF f.item.price # {} THEN "validate_price" ELSE "add"]

\* Step 4 on an AOD page: offer traversal; the offer found is remembered
\* with its own add button, none found ends the flow.
find_valid_amazon_offer ==
    /\ flow.pc = "aod"
    /\ \E probe \in AodProbes(flow.item.site) :
          LET found == _find_valid_amazon_offer_in_aod(flow.item.site, probe)
          IN  flow' =
                IF found = {}
                THEN Return(flow, FlowResult(FALSE, ERROR,
                                             "No valid Amazon offer found in AOD"))
                ELSE LET o == AodOffer(flow.item.site, CHOOSE i \in found : TRUE)
                     IN  AfterSeller([flow EXCEPT
                            !.aod_offer = found,
                            !.seller_info =
                                {Stored(SellerInfo(Strip(o.ships_from),
                                                   Strip(o.sold_by)), FALSE)}])
    /\ UNCHANGED <<browser, broker, notFlow>>

\* A validation failure reported with the state the flow is in.
RejectWithFlowState(f, fault, message) ==
    IF fault THEN [f EXCEPT !.pc = "except"]
    ELSE Return(f, FlowResult(FALSE, f.state, message))

\* A validation failure that is recorded and then passed over: the flow
\* goes on to the purchase steps.
RejectAndContinue(f, fault, message) ==
    [f EXCEPT !.result = {FlowResult(FALSE, ERROR, message)}, !.pc = "add"]

\* A validation failure: _log_step("seller_failed" / "price_failed"), which
\* can raise into execute's handler, then the failure result.
Reject(f, fault, message) ==
    IF fault THEN [f EXCEPT !.pc = "except"]
    ELSE Return(f, FlowResult(FALSE, ERROR, message))

\* A seller validation that tests the shipper only.
_step_validate_shipper_only ==
    /\ flow.pc = "validate_seller"
    /\ \E link_visible \in BOOLEAN, rows_visible \in BOOLEAN, fault \in BOOLEAN :
          LET seller_info == _extract_seller_info_standard(
                                 flow.item.site, link_visible, rows_visible)
              f == [flow EXCEPT !.seller_info = {Stored(seller_info, FALSE)}]
          IN  flow' =
                IF ~is_amazon_shipper(seller_info)
                THEN Reject(f, fault, "Invalid shipper")
                ELSE AfterSeller(f)
    /\ UNCHANGED <<browser, broker, notFlow>>

\* _step_validate_seller (standard page).  The buy box text the extraction
\* fell back to can contain "no featured offers", which fails the step
\* before the two predicates are tested.
_step_validate_seller ==
    /\ flow.pc = "validate_seller"
    /\ \E link_visible \in BOOLEAN, rows_visible \in BOOLEAN,
          no_featured_offers \in BOOLEAN, fault \in BOOLEAN :
          LET seller_info == _extract_seller_info_standard(
                                 flow.item.site, link_visible, rows_visible)
              in_raw_text == /\ no_featured_offers
                             /\ flow.item.site.buybox # {}
                             /\ ~link_visible
                             /\ rows_visible
              f == [flow EXCEPT !.seller_info = {Stored(seller_info, in_raw_text)}]
          IN  flow' =
                IF in_raw_text
                THEN Reject(f, fault, "No featured offers available")
                ELSE IF ~is_amazon_shipper(seller_info)
                THEN Reject(f, fault, "Invalid shipper")
                ELSE IF ~is_valid_seller(seller_info)
                THEN Reject(f, fault, "Invalid seller")
                ELSE AfterSeller(f)
    /\ UNCHANGED <<browser, broker, notFlow>>

\* _step_validate_price (only when an expected price was supplied)
_step_validate_price ==
    /\ flow.pc = "validate_price"
    /\ \E price_visible \in BOOLEAN, fault \in BOOLEAN :
          LET displayed == _extract_price(flow.item.site, flow.is_aod, price_visible)
              expected == CHOOSE p \in flow.item.price : TRUE
              f == [flow EXCEPT !.price_info = {[displayed_price |-> displayed]}]
          IN  flow' =
                IF displayed = {}
                THEN Reject(f, fault, "Could not extract price from page")
                ELSE IF ~PriceMatches(displayed, expected)
                THEN Reject(f, fault, "Price mismatch")
                ELSE [f EXCEPT !.pc = "add"]
    /\ UNCHANGED <<browser, broker, notFlow>>

\* The visible elements among those the selectors can denote, and the ones
\* among them whose click raises.  The steps of the flow are followed for
\* the calls whose step event is published; the scan under a publish that
\* raises is followed call by call in ClickSpec.
Probes(site, selectors) ==
    { pr \in [visible : SUBSET Elements(site, selectors),
              raises : SUBSET Elements(site, selectors),
              publish_raises : {FALSE}] :
        pr.raises \subseteq pr.visible }

ClickOn(f, site, selectors, i) ==
    LET e == ClickedElement(site, selectors, i)
    IN  [f EXCEPT !.clicks = Append(@, Click(ControlOf(e), OfferOf(site, e)))]

\* Step 6 with an offer selected by the traversal: that offer's own add
\* button is clicked.  The click, or the _log_step after it, can raise; the
\* step's own handler then ends the flow with a failure result.
click_aod_offer ==
    /\ flow.pc = "add"
    /\ flow.aod_offer # {}
    /\ \E outcome \in {"click_raises", "raises_after_click", "ok"} :
          LET i == CHOOSE x \in flow.aod_offer : TRUE
              clicked == [flow EXCEPT !.clicks =
                            Append(@, Click("add_to_cart",
                                            {AodOffer(flow.item.site, i)}))]
              failure == FlowResult(FALSE, ERROR,
                            "Failed to click Add to Cart for selected offer")
          IN  /\ flow' =
                   CASE outcome = "click_raises" -> Return(flow, failure)
                     [] outcome = "raises_after_click" -> Return(clicked, failure)
                     [] OTHER ->
                          [_update_state(clicked, WAITING_CART_CONFIRMATION)
                             EXCEPT !.pc = "cart_confirmation"]
              /\ broker' = IF outcome = "ok"
                           THEN SyncStatus(broker, WAITING_CART_CONFIRMATION)
                           ELSE broker
    /\ UNCHANGED <<browser, notFlow>>

\* Step 6 on a standard page: _try_buy_now first.  Its scan is that of
\* _find_and_click; a _log_step that raises after the click is swallowed by
\* the scan's bare except and, the page having left the product page, the
\* method returns False.
_try_buy_now ==
    /\ flow.pc = "add"
    /\ flow.aod_offer = {}
    /\ \E pr \in Probes(flow.item.site, BuyNowSelectors),
          raises_after_click \in BOOLEAN :
          LET site == flow.item.site
              i == _find_and_click(site, BuyNowSelectors, pr.visible, pr.raises, pr.publish_raises)
              clicked == ClickOn(flow, site, BuyNowSelectors, i)
          IN  /\ i = 0 => ~raises_after_click
              /\ flow' =
                   IF i = 0 THEN [flow EXCEPT !.pc = "add_to_cart"]
                   ELSE IF raises_after_click
                   THEN [clicked EXCEPT !.pc = "add_to_cart"]
                   ELSE [_update_state(clicked, ON_CHECKOUT_PAGE)
                           EXCEPT !.used_buy_now = TRUE, !.pc = "on_checkout"]
              /\ broker' = IF i # 0 /\ ~raises_after_click
                           THEN SyncStatus(broker, ON_CHECKOUT_PAGE)
                           ELSE broker
    /\ UNCHANGED <<browser, notFlow>>

\* An add-to-cart step whose loop makes one scan more than MAX_RETRIES.
_step_add_to_cart_once_more ==
    /\ flow.pc = "add_to_cart"
    /\ IF flow.attempt < MAX_RETRIES + 1
       THEN \E pr \in Probes(flow.item.site, AddToCartSelectors) :
              LET site == flow.item.site
                  f == _update_state(flow, ADDING_TO_CART)
                  i == _find_and_click(site, AddToCartSelectors,
                                       pr.visible, pr.raises, pr.publish_raises)
              IN  /\ flow' =
                       IF i # 0
                       THEN [ClickOn(f, site, AddToCartSelectors, i)
                               EXCEPT !.pc = "cart_confirmation", !.attempt = 0]
                       ELSE [f EXCEPT !.attempt = @ + 1]
                  /\ broker' = IF flow.attempt = 0
                               THEN SyncStatus(broker, ADDING_TO_CART)
                               ELSE broker
                  /\ UNCHANGED browser
       ELSE /\ flow' = Return([_handle_error(flow, "amazon_add_to_cart_error")
                                 EXCEPT !.attempt = 0],
                              FlowResult(FALSE, ERROR, "Add to Cart button not found"))
            /\ broker' = SyncStatus(broker, ERROR)
            /\ browser' = [browser EXCEPT !.tracing = FALSE]
    /\ UNCHANGED notFlow

\* _step_add_to_cart: one scan of SELECTORS["add_to_cart"] of its retry
\* loop; after MAX_RETRIES scans _handle_error and a failure result.
_step_add_to_cart ==
    /\ flow.pc = "add_to_cart"
    /\ IF flow.attempt < MAX_RETRIES
       THEN \E pr \in Probes(flow.item.site, AddToCartSelectors) :
              LET site == flow.item.site
                  f == _update_state(flow, ADDING_TO_CART)
                  i == _find_and_click(site, AddToCartSelectors,
                                       pr.visible, pr.raises, pr.publish_raises)
              IN  /\ flow' =
                       IF i # 0
                       THEN [ClickOn(f, site, AddToCartSelectors, i)
                               EXCEPT !.pc = "cart_confirmation", !.attempt = 0]
                       ELSE [f EXCEPT !.attempt = @ + 1]
                  /\ broker' = IF flow.attempt = 0
                               THEN SyncStatus(broker, ADDING_TO_CART)
                               ELSE broker
                  /\ UNCHANGED browser
       ELSE /\ flow' = Return([_handle_error(flow, "amazon_add_to_cart_error")
                                 EXCEPT !.attempt = 0],
                              FlowResult(FALSE, ERROR, "Add to Cart button not found"))
            /\ broker' = SyncStatus(broker, ERROR)
            /\ browser' = [browser EXCEPT !.tracing = FALSE]
    /\ UNCHANGED notFlow

\* A cart confirmation step that marks the flow AddingToCart again.
_step_wait_marks_adding ==
    /\ flow.pc = "cart_confirmation"
    /\ flow' = [_update_state(flow, ADDING_TO_CART)
                  EXCEPT !.pc = "proceed_to_checkout"]
    /\ broker' = SyncStatus(broker, ADDING_TO_CART)
    /\ UNCHANGED <<browser, notFlow>>

\* _step_wait_cart_confirmation: succeeds with or without a confirmation.
_step_wait_cart_confirmation ==
    /\ flow.pc = "cart_confirmation"
    /\ flow' = [_update_state(flow, WAITING_CART_CONFIRMATION)
                  EXCEPT !.pc = "proceed_to_checkout"]
    /\ broker' = SyncStatus(broker, WAITING_CART_CONFIRMATION)
    /\ UNCHANGED <<browser, notFlow>>

\* _step_proceed_to_checkout, up to its retry loop: the side panel's
\* checkout control, else the go-to-cart control.
_step_proceed_to_checkout ==
    /\ flow.pc = "proceed_to_checkout"
    /\ \E side \in Probes(flow.item.site, SidePanelCheckoutSelectors),
          cart \in Probes(flow.item.site, GoToCartSelectors) :
          LET site == flow.item.site
              f == _update_state(flow, PROCEEDING_TO_CHECKOUT)
              i == _find_and_click(site, SidePanelCheckoutSelectors,
                                   side.visible, side.raises, side.publish_raises)
              j == _find_and_click(site, GoToCartSelectors,
                                   cart.visible, cart.raises, cart.publish_raises)
          IN  /\ flow' =
                   IF i # 0
                   THEN [_update_state(
                            ClickOn(f, site, SidePanelCheckoutSelectors, i),
                            ON_CHECKOUT_PAGE) EXCEPT !.pc = "on_checkout"]
                   ELSE IF j # 0
                   THEN [ClickOn(f, site, GoToCartSelectors, j)
                           EXCEPT !.pc = "cart_checkout"]
                   ELSE [f EXCEPT !.pc = "cart_checkout"]
              /\ broker' = SyncStatus(broker, IF i # 0 THEN ON_CHECKOUT_PAGE
                                              ELSE PROCEEDING_TO_CHECKOUT)
    /\ UNCHANGED <<browser, notFlow>>

\* The retry loop of _step_proceed_to_checkout: one click attempt on the
\* cart page's checkout control; after MAX_RETRIES attempts _handle_error.
cart_checkout ==
    /\ flow.pc = "cart_checkout"
    /\ IF flow.attempt < MAX_RETRIES
       THEN \E pr \in Probes(flow.item.site, CartCheckoutSelectors) :
              LET site == flow.item.site
                  i == _find_and_click(site, CartCheckoutSelectors,
                                       pr.visible, pr.raises, pr.publish_raises)
              IN  /\ flow' =
                       IF i # 0
                       THEN [_update_state(
                                ClickOn(flow, site, CartCheckoutSelectors, i),
                                ON_CHECKOUT_PAGE)
                               EXCEPT !.pc = "on_checkout", !.attempt = 0]
                       ELSE [flow EXCEPT !.attempt = @ + 1]
                  /\ broker' = IF i # 0 THEN SyncStatus(broker, ON_CHECKOUT_PAGE)
                               ELSE broker
                  /\ UNCHANGED browser
       ELSE /\ flow' = Return([_handle_error(flow, "amazon_proceed_to_checkout_error")
                                 EXCEPT !.attempt = 0],
                              FlowResult(FALSE, ERROR, "Could not proceed to checkout"))
            /\ broker' = SyncStatus(broker, ERROR)
            /\ browser' = [browser EXCEPT !.tracing = FALSE]
    /\ UNCHANGED notFlow

\* execute between the checkout and the order step: two _log_step calls.
on_checkout ==
    /\ flow.pc = "on_checkout"
    /\ flow' = [flow EXCEPT !.pc = "place_order"]
    /\ UNCHANGED <<browser, broker, notFlow>>

\* A flow that ignores the safety switch.
GateIgnored(f) == FALSE

\* The test of _step_place_order's safety switch.
GateEnabled(f) == f.confirm_final_order

\* _step_place_order up to its wait for the confirmation page: state
\* PlacingOrder, wait for the place-order control; with the gate the two
\* operator events, without it one _find_and_click on the control.
_step_place_order ==
    /\ flow.pc = "place_order"
    /\ \E place_order_found \in BOOLEAN,
          pr \in Probes(flow.item.site, PlaceOrderSelectors) :
          LET site == flow.item.site
              f == _update_state(flow, PLACING_ORDER)
              i == _find_and_click(site, PlaceOrderSelectors,
                                   pr.visible, pr.raises, pr.publish_raises)
              failed(message) ==
                  [_handle_error(f, "amazon_place_order_error")
                     EXCEPT !.result = {FlowResult(FALSE, ERROR, message)},
                            !.pc = "placed"]
          IN  IF ~place_order_found
              THEN /\ flow' = failed("Place Order button not found")
                   /\ broker' = SyncStatus(broker, ERROR)
                   /\ browser' = [browser EXCEPT !.tracing = FALSE]
              ELSE IF GateEnabled(flow)
              THEN /\ flow' = [Emit(Emit(_update_state(f, ORDER_PENDING_CONFIRMATION),
                                         "amazon_order_pending_confirmation"),
                                    "operator_action_required")
                                 EXCEPT !.pc = "await_confirmation"]
                   /\ broker' = SyncStatus(broker, ORDER_PENDING_CONFIRMATION)
                   /\ UNCHANGED browser
              ELSE IF i # 0
              THEN /\ flow' = [ClickOn(f, site, PlaceOrderSelectors, i)
                                 EXCEPT !.pc = "await_confirmation"]
                   /\ broker' = SyncStatus(broker, PLACING_ORDER)
                   /\ UNCHANGED browser
              ELSE /\ flow' = failed("Failed to place order")
                   /\ broker' = SyncStatus(broker, ERROR)
                   /\ browser' = [browser EXCEPT !.tracing = FALSE]
    /\ UNCHANGED notFlow

\* A wait whose timeout is a failure with or without the gate.
TimeoutIsError(f, confirmation_found) ==
    IF confirmation_found
    THEN {FlowResult(TRUE, ORDER_PLACED, "Order placed successfully")}
    ELSE {FlowResult(FALSE, ERROR, "Failed to place order")}

\* A wait that reports the order placed whether or not the confirmation
\* page appeared.
AssumePlaced(f, confirmation_found) ==
    IF confirmation_found \/ ~f.confirm_final_order
    THEN {FlowResult(TRUE, ORDER_PLACED, "Order placed successfully")}
    ELSE {FlowResult(FALSE, ORDER_PENDING_CONFIRMATION,
                     "Timeout waiting for operator confirmation")}

\* A wait whose timeout under the gate is reported as a success in state
\* OrderPendingConfirmation.
PendingIsSuccess(f, confirmation_found) ==
    IF confirmation_found
    THEN {FlowResult(TRUE, ORDER_PLACED, "Order placed successfully")}
    ELSE IF GateEnabled(f)
    THEN {FlowResult(TRUE, ORDER_PENDING_CONFIRMATION,
                     "Timeout waiting for operator confirmation")}
    ELSE {FlowResult(FALSE, ERROR, "Failed to place order")}

\* The result of the wait for the order-confirmation page.
ConfirmationResult(f, confirmation_found) ==
    IF confirmation_found
    THEN {FlowResult(TRUE, ORDER_PLACED, "Order placed successfully")}
    ELSE IF GateEnabled(f)
    THEN {FlowResult(FALSE, ORDER_PENDING_CONFIRMATION,
                     "Timeout waiting for operator confirmation")}
    ELSE {FlowResult(FALSE, ERROR, "Failed to place order")}

\* _step_place_order, the wait for the order-confirmation page and the
\* step's result.
await_confirmation ==
    /\ flow.pc = "await_confirmation"
    /\ \E confirmation_found \in BOOLEAN :
          LET waited == [flow EXCEPT
                           !.confirmation = IF confirmation_found THEN "found"
                                            ELSE "timeout",
                           !.result = ConfirmationResult(flow, confirmation_found),
                           !.pc = "placed"]
          IN  IF confirmation_found
              THEN /\ flow' = Emit(_update_state(waited, ORDER_PLACED),
                                   "amazon_order_placed")
                   /\ broker' = SyncStatus(broker, ORDER_PLACED)
                   /\ UNCHANGED browser
              ELSE IF GateEnabled(flow)
              THEN /\ flow' = waited
                   /\ UNCHANGED <<broker, browser>>
              ELSE /\ flow' = _handle_error(waited, "amazon_place_order_error")
                   /\ broker' = SyncStatus(broker, ERROR)
                   /\ browser' = [browser EXCEPT !.tracing = FALSE]
    /\ UNCHANGED notFlow

\* execute after _step_place_order: _log_step("order_placed") on success
\* (it can raise, and the exception reaches execute's handler), then the
\* step's result is returned.
execute_return ==
    /\ flow.pc = "placed"
    /\ \E fault \in BOOLEAN :
          /\ fault => (CHOOSE r \in flow.result : TRUE).success
          /\ flow' = [flow EXCEPT !.pc = IF fault THEN "except" ELSE "finally"]
    /\ UNCHANGED <<browser, broker, notFlow>>

\* execute's exception handler: _handle_error when the page was obtained,
\* _log_step("flow_error"), a failure result.  A raise inside the handler
\* leaves execute.
execute_except ==
    /\ flow.pc = "except"
    /\ \E fault \in BOOLEAN :
          LET f == IF flow.page THEN _handle_error(flow, "amazon_flow_exception_error")
                   ELSE flow
          IN  /\ flow' =
                   IF fault
                   THEN [f EXCEPT !.raising = TRUE, !.result = {}, !.pc = "finally"]
                   ELSE Return(f, FlowResult(FALSE, ERROR, "Flow exception"))
              /\ broker' = IF flow.page THEN SyncStatus(broker, ERROR) ELSE broker
              /\ browser' = IF flow.page THEN [browser EXCEPT !.tracing = FALSE]
                            ELSE browser
    /\ UNCHANGED notFlow

\* execute's finally block: current_urls cleared, tracing stopped; execute
\* is left, by return or by the exception in flight.
execute_finally ==
    /\ flow.pc = "finally"
    /\ broker' = [broker EXCEPT !.current_urls = {}]
    /\ browser' = [browser EXCEPT !.tracing = FALSE]
    /\ flow' = [flow EXCEPT !.pc = IF flow.raising THEN "raised" ELSE "returned"]
    /\ executing' = executing \ {flow.item.id}
    /\ finished' = finished \cup {flow.item.id}
    /\ UNCHANGED outside

\* One step of an execute() in progress.
FlowStep ==
    \/ execute_start
    \/ execute_setup
    \/ flow_exception
    \/ _step_open_product
    \/ _check_currently_unavailable
    \/ _check_and_click_see_all_options
    \/ find_valid_amazon_offer
    \/ _step_validate_seller
    \/ _step_validate_price
    \/ click_aod_offer
    \/ _try_buy_now
    \/ _step_add_to_cart
    \/ _step_wait_cart_confirmation
    \/ _step_proceed_to_checkout
    \/ cart_checkout
    \/ on_checkout
    \/ _step_place_order
    \/ await_confirmation
    \/ execute_return
    \/ execute_except
    \/ execute_finally

(* ----------------- one execute() over every kind of page --------------- *)

\* The worker has taken item 1 off the queue and awaits its flow; the item
\* ranges over both URL kinds, every site content, every expected price and
\* both settings of the confirmation gate.
FlowInit ==
    /\ \E kind \in {"std", "aod"}, site \in Sites, price \in Opt(Prices),
          confirm_final_order \in BOOLEAN :
          flow = NewFlow(WorkItem(1, kind, site, price, "watcher"),
                         confirm_final_order, "start")
    /\ queue = <<>>
    /\ next_id = 2
    /\ worker = [pc |-> "executing", is_running |-> TRUE, is_paused |-> FALSE,
                 confirm_final_order |-> flow.confirm_final_order]
    /\ browser = [is_running |-> TRUE, amazon_page |-> FALSE, tracing |-> FALSE]
    /\ broker = [current_state |-> DISCORD_MONITORING, current_urls |-> {},
                 worker_errors |-> 0, flow_complete |-> {}]
    /\ executing = {1}
    /\ started = <<1>>
    /\ finished = {}
    /\ faulted = {}
    /\ activity = add_activity_item({}, create_activity_item(1))
    /\ traversal = NoTraversal
    /\ call = NoCall
    /\ watcher = NoWatcher

FlowSpec == FlowInit /\ [][FlowStep]_vars

(* ----------------------------- AmazonWorker ---------------------------- *)

\* asyncio.Queue: put appends, get takes the oldest item.
put(q, item) == Append(q, item)

\* A queue whose get takes the newest item.
get_newest(q) == [item |-> q[Len(q)], rest |-> SubSeq(q, 1, Len(q) - 1)]

get(q) == [item |-> Head(q), rest |-> Tail(q)]

\* `result = await flow.execute(...)`: the worker goes on when execute has
\* returned or raised.
Awaited(f) == f.pc \in {"returned", "raised"}

\* A worker whose loop ends on an exception.
Crash(w) == [w EXCEPT !.pc = "stopped"]

\* The worker's `except Exception` clause: the loop goes on.
OnException(w) == [w EXCEPT !.pc = "loop"]

notWorker ==
    <<queue, next_id, flow, browser, executing, started, finished, activity,
      traversal, call, watcher>>

\* AmazonWorker.start, up to its loop
start ==
    /\ worker.pc = "init"
    /\ worker' = [worker EXCEPT !.is_running = TRUE, !.pc = "loop"]
    /\ UNCHANGED <<broker, faulted, notWorker>>

\* A worker loop whose condition is never false.
worker_loop_forever ==
    /\ worker.pc = "loop"
    /\ worker' = [worker EXCEPT !.pc =
                    IF worker.is_paused /\ worker.is_running THEN "sleeping"
                    ELSE "pulling"]
    /\ UNCHANGED <<broker, faulted, notWorker>>

\* The loop test and the pause test: the loop ends, or the worker sleeps a
\* second, or it enters wait_for(url_queue.get(), 5.0).
worker_loop ==
    /\ worker.pc = "loop"
    /\ worker' = [worker EXCEPT !.pc =
                    IF ~(worker.is_running /\ browser.is_running) THEN "stopped"
                    ELSE IF worker.is_paused /\ worker.is_running THEN "sleeping"
                    ELSE "pulling"]
    /\ UNCHANGED <<broker, faulted, notWorker>>

\* The end of a sleep of the pause loop, when its test no longer holds.
worker_wake ==
    /\ worker.pc = "sleeping"
    /\ ~(worker.is_paused /\ worker.is_running)
    /\ worker' = [worker EXCEPT !.pc = "pulling"]
    /\ UNCHANGED <<broker, faulted, notWorker>>

\* The pull times out on an empty queue: `continue`.
worker_timeout ==
    /\ worker.pc = "pulling"
    /\ queue = <<>>
    /\ worker' = [worker EXCEPT !.pc = "loop"]
    /\ UNCHANGED <<broker, faulted, notWorker>>

\* A worker that keeps one flow object and runs every item on it.
worker_get_reuses_flow ==
    /\ worker.pc = "pulling"
    /\ queue # <<>>
    /\ LET item == get(queue).item
       IN  /\ queue' = get(queue).rest
           /\ IF item.url # ""
              THEN /\ flow' = [flow EXCEPT !.item = item, !.pc = "start", !.result = {}]
                   /\ worker' = [worker EXCEPT !.pc = "executing"]
                   /\ executing' = executing \cup {item.id}
                   /\ started' = Append(started, item.id)
              ELSE /\ worker' = [worker EXCEPT !.pc = "loop"]
                   /\ UNCHANGED <<flow, executing, started>>
    /\ UNCHANGED <<next_id, browser, broker, finished, faulted, activity, traversal, call, watcher>>

\* The pull returns an item; with a non-empty url a new AmazonFlow is made
\* and its execute entered.
worker_get ==
    /\ worker.pc = "pulling"
    /\ queue # <<>>
    /\ LET item == get(queue).item
       IN  /\ queue' = get(queue).rest
           /\ IF item.url # ""
              THEN /\ flow' = NewFlow(item, worker.confirm_final_order, "start")
                   /\ worker' = [worker EXCEPT !.pc = "executing"]
                   /\ executing' = executing \cup {item.id}
                   /\ started' = Append(started, item.id)
              ELSE /\ worker' = [worker EXCEPT !.pc = "loop"]
                   /\ UNCHANGED <<flow, executing, started>>
    /\ UNCHANGED <<next_id, browser, broker, finished, faulted, activity, traversal, call, watcher>>

\* The status the worker persists for a result
result_status(result) == IF result.success THEN "success" ELSE "failure"

\* After execute returned: update_activity_result, the amazon_flow_complete
\* event, close_amazon_page, and the status back to monitoring unless the
\* result's state is Error.  The activity-store write and the page close can
\* raise into the worker's handler.
worker_after_flow ==
    /\ worker.pc = "executing"
    /\ Awaited(flow)
    /\ flow.pc # "raised"
    /\ \E fault \in {"none", "update_activity_result", "close_amazon_page"} :
          LET result == CHOOSE r \in flow.result : TRUE
              message_id == flow.item.id
              updated == update_activity_result(activity, message_id,
                                                result_status(result))
              published == [broker EXCEPT !.flow_complete = @ \cup {message_id}]
          IN  CASE fault = "none" ->
                   /\ worker' = [worker EXCEPT !.pc = "loop"]
                   /\ activity' = updated
                   /\ browser' = [browser EXCEPT !.amazon_page = FALSE]
                   /\ broker' = IF result.success \/ result.state # ERROR
                                THEN [published EXCEPT !.current_state = DISCORD_MONITORING]
                                ELSE published
                   /\ UNCHANGED faulted
                [] fault = "update_activity_result" ->
                   /\ ActivityOf(activity, message_id) # {}
                   /\ worker' = OnException(worker)
                   /\ broker' = [broker EXCEPT !.worker_errors = @ + 1]
                   /\ faulted' = faulted \cup {message_id}
                   /\ UNCHANGED <<browser, activity>>
                [] fault = "close_amazon_page" ->
                   /\ worker' = OnException(worker)
                   /\ activity' = updated
                   /\ broker' = [published EXCEPT !.worker_errors = @ + 1]
                   /\ faulted' = faulted \cup {message_id}
                   /\ UNCHANGED browser
    /\ UNCHANGED <<queue, next_id, flow, executing, started, finished, traversal, call, watcher>>

\* execute raised: the worker's handler publishes amazon_worker_error.
worker_flow_raised ==
    /\ worker.pc = "executing"
    /\ Awaited(flow)
    /\ flow.pc = "raised"
    /\ worker' = OnException(worker)
    /\ broker' = [broker EXCEPT !.worker_errors = @ + 1]
    /\ faulted' = faulted \cup {flow.item.id}
    /\ UNCHANGED notWorker

WorkerStep ==
    \/ start
    \/ worker_loop
    \/ worker_wake
    \/ worker_timeout
    \/ worker_get
    \/ worker_after_flow
    \/ worker_flow_raised

(* ------------------------- producers and controls ---------------------- *)

\* The pages behind the URLs of a run: a single-offer page whose all-offers
\* panel is preloaded with a third-party pinned offer, and a multi-offer
\* page with a third-party pinned offer and an Amazon offer card at the
\* higher price.
StandardPage ==
    [ buybox |-> {Offer(AmazonCom, AmazonCom, LowPrice)},
      pinned |-> {Offer(ThirdParty, ThirdParty, LowPrice)},
      cards |-> <<>> ]

OffersPage ==
    [ buybox |-> {},
      pinned |-> {Offer(ThirdParty, ThirdParty, LowPrice)},
      cards |-> << CHOOSE o \in CardOffers :
                      o.price # LowPrice /\ _is_valid_amazon_offer(o.ships_from, o.sold_by) >> ]

PageOf(kind) ==
    CASE kind = "std" -> StandardPage
      [] kind = "aod" -> OffersPage
      [] OTHER -> NoItem.site

\* A producer's queueing of one URL; the channel watcher in rule mode first
\* saves an activity record under the message id, the other producers save
\* none.
Enqueue(kind, price, source) ==
    /\ next_id <= MaxItems
    /\ queue' = put(queue, WorkItem(next_id, kind, PageOf(kind), price, source))
    /\ next_id' = next_id + 1
    /\ activity' = IF source = "rule"
                   THEN add_activity_item(activity, create_activity_item(next_id))
                   ELSE activity
    /\ UNCHANGED <<worker, flow, browser, broker, history, traversal, call, watcher>>

\* A trigger endpoint that runs the flow for the URL itself instead of
\* queueing it.
trigger_runs_flow ==
    /\ browser.is_running
    /\ next_id <= MaxItems
    /\ flow' = NewFlow(WorkItem(next_id, "std", PageOf("std"), {LowPrice},
                                "manual_trigger"),
                       worker.confirm_final_order, "start")
    /\ executing' = executing \cup {next_id}
    /\ started' = Append(started, next_id)
    /\ next_id' = next_id + 1
    /\ UNCHANGED <<queue, worker, browser, broker, finished, faulted, activity, traversal, call, watcher>>

\* POST /actions/trigger: the request's url (which may be empty) and price
\* are queued; nothing else is done.
trigger_url ==
    /\ browser.is_running
    /\ \E kind \in {"std", ""} : Enqueue(kind, {LowPrice}, "manual_trigger")

\* DiscordWatcher._process_new_message, rule mode: the URL of a matching
\* message is queued with the parsed price.
watcher_put_rule ==
    /\ browser.is_running
    /\ Enqueue("aod", {LowPrice}, "rule")

\* DiscordWatcher._process_new_message, legacy mode: the URL is queued
\* without parsed data.
watcher_put_legacy ==
    /\ browser.is_running
    /\ Enqueue("std", {}, "legacy")

\* A pause that drops the flow in flight.
pause_and_abort ==
    /\ worker' = [worker EXCEPT !.is_paused = TRUE,
                                !.pc = IF @ = "executing" THEN "loop" ELSE @]
    /\ broker' = [broker EXCEPT !.current_state = PAUSED]
    /\ flow' = IF worker.pc = "executing" THEN NoFlow ELSE flow
    /\ UNCHANGED <<queue, next_id, browser, history, activity, traversal, call, watcher>>

\* POST /actions/pause: AmazonWorker.pause
pause ==
    /\ worker' = [worker EXCEPT !.is_paused = TRUE]
    /\ broker' = [broker EXCEPT !.current_state = PAUSED]
    /\ UNCHANGED <<queue, next_id, flow, browser, history, activity, traversal, call, watcher>>

\* POST /actions/resume: AmazonWorker.resume, status back to monitoring
resume ==
    /\ worker' = [worker EXCEPT !.is_paused = FALSE]
    /\ broker' = [broker EXCEPT !.current_state = DISCORD_MONITORING]
    /\ UNCHANGED <<queue, next_id, flow, browser, history, activity, traversal, call, watcher>>

\* shutdown(): amazon_worker.stop() and browser_manager.shutdown()
shutdown ==
    /\ browser.is_running
    /\ worker' = [worker EXCEPT !.is_running = FALSE]
    /\ browser' = [browser EXCEPT !.is_running = FALSE, !.amazon_page = FALSE]
    /\ UNCHANGED <<queue, next_id, flow, broker, history, activity, traversal, call, watcher>>

(* ------------------------------ the program ---------------------------- *)

\* run_normal_mode has initialised the browser and constructed the worker;
\* start() has not run yet.
Init ==
    /\ queue = <<>>
    /\ next_id = 1
    /\ \E confirm_final_order \in BOOLEAN :
          worker = [pc |-> "init", is_running |-> FALSE, is_paused |-> FALSE,
                    confirm_final_order |-> confirm_final_order]
    /\ flow = NoFlow
    /\ browser = [is_running |-> TRUE, amazon_page |-> FALSE, tracing |-> FALSE]
    /\ broker = [current_state |-> IDLE, current_urls |-> {}, worker_errors |-> 0,
                 flow_complete |-> {}]
    /\ executing = {}
    /\ started = <<>>
    /\ finished = {}
    /\ faulted = {}
    /\ activity = {}
    /\ traversal = NoTraversal
    /\ call = NoCall
    /\ watcher = NoWatcher

Next ==
    \/ WorkerStep
    \/ FlowStep
    \/ trigger_url
    \/ watcher_put_rule
    \/ watcher_put_legacy
    \/ pause
    \/ resume
    \/ shutdown

Spec == Init /\ [][Next]_vars

(* ------------------------- properties of a flow ------------------------ *)

ClicksOn(controls) ==
    { i \in 1..Len(flow.clicks) : flow.clicks[i].ctl \in controls }

PurchaseControls == {"add_to_cart", "buy_now"}

TheResult == CHOOSE r \in flow.result : TRUE

\* C1: every add-to-cart or buy-now click is on an offer shipped by
\* amazon.com (trimmed, case-insensitive) and sold by a seller whose name
\* contains the brand token.
C1_ClicksOnlyAmazonOffers ==
    \A i \in ClicksOn(PurchaseControls) :
        /\ flow.clicks[i].offer # {}
        /\ \A o \in flow.clicks[i].offer :
              is_amazon_shipper(o) /\ is_valid_seller(o)

\* C2: with an expected price supplied, when offer traversal selected an
\* offer of the all-offers panel, the offer whose add-to-cart control is
\* clicked shows the expected price.
C2_ClickedOfferAtExpectedPrice ==
    (flow.item.price # {} /\ flow.aod_offer # {}) =>
        \A i \in ClicksOn({"add_to_cart"}) :
            \A o \in flow.clicks[i].offer : {o.price} = flow.item.price

\* The price step ran and did not find the expected price displayed.
PriceRejected ==
    /\ flow.price_info # {}
    /\ (CHOOSE x \in flow.price_info : TRUE).displayed_price # flow.item.price

\* C3: when the displayed price differs from the expected one, or no price
\* can be extracted, the flow makes no add-to-cart, buy-now, checkout or
\* place-order click, and the result execute returns is a failure in state
\* Error.
C3_PriceMismatchHalts ==
    PriceRejected =>
        /\ ClicksOn({"add_to_cart", "buy_now", "checkout", "place_order"}) = {}
        /\ flow.pc \notin {"add", "add_to_cart", "cart_confirmation",
                           "proceed_to_checkout", "cart_checkout", "on_checkout",
                           "place_order", "await_confirmation", "placed"}
        /\ flow.pc = "returned" =>
              (~TheResult.success /\ TheResult.state = ERROR)

C3_Witness ==
    /\ PriceRejected
    /\ flow.pc = "returned"
    /\ TheResult = FlowResult(FALSE, ERROR, "Price mismatch")

C5_GateTimeoutIsPending ==
    (flow.confirm_final_order /\ flow.confirmation = "timeout"
        /\ flow.pc = "returned") =>
        /\ ~TheResult.success
        /\ TheResult.state = ORDER_PENDING_CONFIRMATION
        /\ flow.state = ORDER_PENDING_CONFIRMATION

C5_Witness ==
    /\ flow.confirm_final_order
    /\ flow.confirmation = "timeout"
    /\ flow.pc = "returned"
    /\ TheResult.state = ORDER_PENDING_CONFIRMATION

Queued == { queue[i].id : i \in 1..Len(queue) }

Started == { started[i] : i \in 1..Len(started) }

\* C7: at most one flow is executing at any time, and only while the
\* worker awaits it.
C7_OneFlowAtATime ==
    /\ Cardinality(executing) <= 1
    /\ executing # {} => (worker.pc = "executing" /\ executing = {flow.item.id})

C7_Witness ==
    /\ executing = {2}
    /\ 1 \in finished
    /\ worker.pc = "executing"

\* C8: flows are started in enqueue order: the ids in `started` increase,
\* every flow started before the latest one has finished, and no item
\* still on the queue was enqueued before an item whose flow was started.
C8_FifoOrder ==
    /\ \A i, j \in 1..Len(started) : i < j => started[i] < started[j]
    /\ \A i \in 1..(Len(started) - 1) : started[i] \in finished
    /\ \A a \in Queued, b \in Started : b < a
    /\ \A i, j \in 1..Len(queue) : i < j => queue[i].id < queue[j].id

C8_Witness ==
    /\ started = <<1, 2>>
    /\ 1 \in finished
    /\ 1 \in faulted

\* C9: while the worker is paused (and not stopped) no item is removed from
\* the queue and no flow is started.
C9_NoDequeueWhilePaused ==
    [][(worker.is_paused /\ worker.is_running /\ browser.is_running) =>
          (Len(queue') >= Len(queue) /\ started' = started)]_vars

NoFaultEndsTheLoop ==
    /\ worker.pc = "stopped" => ~(worker.is_running /\ browser.is_running)
    /\ broker.worker_errors >= Cardinality(faulted)
    /\ faulted # {} => broker.worker_errors >= 1

\* The worker and the flow it awaits keep being scheduled by the event loop.
LiveSpec == Spec /\ WF_vars(WorkerStep) /\ WF_vars(FlowStep)

C11_ExecuteNeverRaises == flow.pc # "raised"

\* C12: when the worker pulls the next item, the Amazon page acquired by
\* every flow it ran before has been closed, whether the flow returned or
\* an exception was raised between starting the flow and the cleanup.
C12_PageClosedBeforeNextPull ==
    (worker.pc = "pulling" /\ started # <<>>) => ~browser.amazon_page

\* C13: on every exit path of execute, by the time execute has been left
\* the tracing started for the flow has been stopped and the process-wide
\* current_urls list is empty.
C13_CleanupOnEveryExit ==
    Awaited(flow) => (~browser.tracing /\ broker.current_urls = {})

(* ------------------------ the worker after a flow ---------------------- *)

\* C14: when the worker has finished the handling of an item whose flow
\* returned (with any result) and goes back to its loop to pull the next
\* item, the process-wide status is "monitoring".
C14_MonitoringAfterFlow ==
    [][ ( /\ worker.pc = "executing"
          /\ flow.pc = "returned"
          /\ worker'.pc = "loop"
          /\ faulted' = faulted )
        => broker'.current_state = DISCORD_MONITORING ]_vars

\* The items the worker ran a flow for and is done with, without an
\* exception having reached its handler.
Handled ==
    { id \in Started \ faulted : ~(worker.pc = "executing" /\ flow.item.id = id) }

\* C15: for every item the worker dequeued and ran a flow for, the flow's
\* outcome is recorded in the activity store under the item's message id
\* and an amazon_flow_complete event is published, whichever producer
\* queued the item (rule mode, legacy mode, manual trigger).
C15_OutcomeRecorded ==
    \A id \in Handled :
        /\ \E it \in ActivityOf(activity, id) :
              it.result_status \in {"success", "failure"}
        /\ id \in broker.flow_complete

\* C16: a flow that ended by confirmation-gate timeout (state
\* OrderPendingConfirmation) is persisted with a result status that differs
\* from the status persisted for a flow that ended in state Error.
C16_PendingPersistedDistinctly ==
    ( /\ flow.pc = "returned"
      /\ flow.item.id \in Handled
      /\ TheResult.state = ORDER_PENDING_CONFIRMATION )
    => \A it \in ActivityOf(activity, flow.item.id) :
          it.result_status # result_status(FlowResult(FALSE, ERROR, "Flow exception"))

(* --------------------------- failure results --------------------------- *)

\* The ERROR events _handle_error publishes, one name per failing stage
ErrorEvents ==
    { "amazon_open_product_error", "amazon_add_to_cart_error",
      "amazon_proceed_to_checkout_error", "amazon_place_order_error",
      "amazon_flow_exception_error" }

\* The failure messages of the validation steps and of the interaction
\* steps of execute
ValidationFailures ==
    { "No featured offers available", "Invalid shipper", "Invalid seller",
      "Price mismatch",
      "Could not extract price from page", "No valid Amazon offer found in AOD" }

InteractionFailures ==
    { "Failed to click Add to Cart for selected offer",
      "Add to Cart button not found", "Could not proceed to checkout",
      "Place Order button not found", "Failed to place order" }

\* C17: every result with state Error that execute returns on a fatal path
\* of its own (one not entered through the exception handler) is
\* accompanied by a diagnostic capture: _handle_error has run before the
\* return and has published its ERROR event with the screenshot and trace
\* paths.
C17_ErrorResultHasDiagnostics ==
    ( /\ flow.pc = "returned"
      /\ TheResult.state = ERROR
      /\ TheResult.message # "Flow exception" )
    => \E i \in 1..Len(flow.events) : flow.events[i] \in ErrorEvents

\* C18: whenever execute returns a failure caused by a validation or an
\* interaction failure, the flow instance's own state is Error, equal to
\* the state of the returned result, and the process-wide status is the
\* one mapped from it ("error").
C18_FlowStateIsErrorAtReturn ==
    ( /\ flow.pc = "returned"
      /\ TheResult.message \in ValidationFailures \cup InteractionFailures )
    => /\ TheResult.state = ERROR
       /\ flow.state = TheResult.state
       /\ broker.current_state = state_mapping(ERROR)

\* C19: once the state of a flow instance is Error or OrderPlaced, no later
\* step, log call or exception handler of the same execute call changes it.
C19_TerminalStateIsFinal ==
    [][ (flow.state \in {ERROR, ORDER_PLACED} /\ flow'.item = flow.item)
        => flow'.state = flow.state ]_vars

(* ----------------------------- offer traversal ------------------------- *)

\* Offer traversal as a function of the page and of what is visible on it:
\* every page of Sites under every probe outcome, one call each.
TraversalInit ==
    /\ \E site \in Sites : \E probe \in AodProbes(site) :
          traversal = Traversal(site, probe)
    /\ queue = <<>>
    /\ next_id = 1
    /\ worker = [pc |-> "init", is_running |-> FALSE, is_paused |-> FALSE,
                 confirm_final_order |-> TRUE]
    /\ flow = NoFlow
    /\ browser = [is_running |-> TRUE, amazon_page |-> TRUE, tracing |-> TRUE]
    /\ broker = [current_state |-> state_mapping(OPENING_PRODUCT), current_urls |-> {},
                 worker_errors |-> 0, flow_complete |-> {}]
    /\ executing = {}
    /\ started = <<>>
    /\ finished = {}
    /\ faulted = {}
    /\ activity = {}
    /\ call = NoCall
    /\ watcher = NoWatcher

traverse ==
    /\ ~traversal.done
    /\ traversal' = [traversal EXCEPT
                        !.result = _find_valid_amazon_offer_in_aod(traversal.site,
                                                                   traversal.probe),
                        !.done = TRUE]
    /\ UNCHANGED <<queue, next_id, worker, flow, browser, broker, history, activity,
                   call, watcher>>

TraversalSpec == TraversalInit /\ [][traverse]_vars

\* What the traversal reads of offer i (0 the pinned offer): the seller
\* fields it extracts satisfy the seller-validity predicate; the offer's own
\* add-to-cart control is visible and selecting the offer raises nothing.
ExtractedValid(i) ==
    LET info == _extract_aod_offer_info(AodOffer(traversal.site, i),
                                        i \in traversal.probe.fields)
    IN  _is_valid_amazon_offer(info.ships_from, info.sold_by)

PinnedShown == traversal.site.pinned # {} /\ traversal.probe.pinned

Selectable(i) ==
    /\ ExtractedValid(i)
    /\ i \in traversal.probe.button
    /\ i \notin traversal.probe.raises
    /\ i = 0 => PinnedShown

WorkerAtRest ==
    /\ queue = <<>>
    /\ next_id = 1
    /\ worker = [pc |-> "init", is_running |-> FALSE, is_paused |-> FALSE,
                 confirm_final_order |-> TRUE]
    /\ flow = NoFlow
    /\ browser = [is_running |-> TRUE, amazon_page |-> FALSE, tracing |-> FALSE]
    /\ broker = [current_state |-> IDLE, current_urls |-> {}, worker_errors |-> 0,
                 flow_complete |-> {}]
    /\ executing = {}
    /\ started = <<>>
    /\ finished = {}
    /\ faulted = {}
    /\ activity = {}
    /\ traversal = NoTraversal

AtRest == WorkerAtRest /\ watcher = NoWatcher

atRest ==
    <<queue, next_id, worker, flow, browser, broker, history, activity, traversal,
      watcher>>

\* The seller predicates on every pair of SellerTexts: the two methods of
\* SellerInfo and the predicate of the offer traversal.
SellerInit ==
    /\ \E ships_from \in SellerTexts, sold_by \in SellerTexts :
          call = [done |-> FALSE, info |-> SellerInfo(ships_from, sold_by)]
    /\ AtRest

check_seller ==
    /\ ~call.done
    /\ call' = [done |-> TRUE,
                info |-> call.info,
                is_amazon_shipper |-> is_amazon_shipper(call.info),
                is_valid_seller |-> is_valid_seller(call.info),
                is_valid_amazon_offer |->
                    _is_valid_amazon_offer(call.info.ships_from, call.info.sold_by)]
    /\ UNCHANGED atRest

SellerSpec == SellerInit /\ [][check_seller]_vars

\* C21: the seller-validity predicate of the offer traversal gives, for
\* every pair (ships_from, sold_by), the same verdict as the conjunction of
\* is_amazon_shipper and is_valid_seller used by seller validation.
C21_SamePredicate ==
    call.done =>
        (call.is_valid_amazon_offer = (call.is_amazon_shipper /\ call.is_valid_seller))

\* C23: is_amazon_shipper is true exactly when ships_from, trimmed and
\* lower-cased, equals "amazon.com" (so it does not depend on sold_by and
\* is false for "Some Other LLC"); is_valid_seller is true exactly when
\* sold_by, lower-cased, contains the brand token.
C23_SellerInfoPredicates ==
    call.done =>
        /\ call.is_amazon_shipper = (Lower(Strip(call.info.ships_from)) = amazon_com)
        /\ call.is_valid_seller = Contains(Lower(call.info.sold_by), amazon)
        /\ call.info.ships_from = SomeOtherLLC => ~call.is_amazon_shipper

C23_Witness ==
    /\ call.done
    /\ call.info = SellerInfo(AmazonPadded, AmazonWarehouse)
    /\ call.is_amazon_shipper
    /\ call.is_valid_seller

(* ------------------------- validation in the flow ---------------------- *)

\* One run of _step_validate_seller, extraction done: the SellerInfo it
\* stored, and how the step ended.
SellerValidated == flow.pc = "validate_seller" /\ flow'.seller_info # {}

SellerPassed == flow'.pc \in {"validate_price", "add"}

SellerFailed ==
    /\ flow'.pc = "finally"
    /\ \E r \in flow'.result : ~r.success /\ r.state = ERROR

SellerStepRaised == flow'.pc = "except"

\* C22 (as stated): seller validation passes if and only if both
\* is_amazon_shipper and is_valid_seller hold for the extracted SellerInfo;
\* otherwise it returns a failure with state Error.
C22_PassesIffBothHold ==
    [][ SellerValidated =>
          LET info == CHOOSE i \in flow'.seller_info : TRUE
              both == is_amazon_shipper(info) /\ is_valid_seller(info)
          IN  /\ SellerPassed <=> both
              /\ ~both => (SellerFailed \/ SellerStepRaised) ]_vars

\* C22 (amended): seller validation passes if and only if the extracted
\* raw text does not contain "no featured offers" and both is_amazon_shipper
\* and is_valid_seller hold for the extracted SellerInfo; otherwise the step
\* ends in a failure with state Error (or its failure log step raises into
\* execute's handler).
C22_PassesIffBothHoldAndOffersFeatured ==
    [][ SellerValidated =>
          LET info == CHOOSE i \in flow'.seller_info : TRUE
              accepted == /\ ~info.no_featured_offers
                          /\ is_amazon_shipper(info)
                          /\ is_valid_seller(info)
          IN  /\ SellerPassed <=> accepted
              /\ ~accepted => (SellerFailed \/ SellerStepRaised) ]_vars

\* Seller validation has passed on a buy box shipped and sold by Amazon.
C22_Witness ==
    /\ flow.pc \in {"validate_price", "add"}
    /\ flow.aod_offer = {}
    /\ \E info \in flow.seller_info :
          is_amazon_shipper(info) /\ is_valid_seller(info) /\ ~info.no_featured_offers

\* The price test of _step_validate_price on its own: displayed prices
\* (or none extracted) and expected prices within a few cents of each other.
NearPrices == { LowPrice + d : d \in -3..3 }

PriceInit ==
    /\ \E displayed_price \in Opt(NearPrices), expected_price \in NearPrices :
          call = [done |-> FALSE, displayed_price |-> displayed_price,
                  expected_price |-> expected_price]
    /\ AtRest

check_price ==
    /\ ~call.done
    /\ call' = [done |-> TRUE,
                displayed_price |-> call.displayed_price,
                expected_price |-> call.expected_price,
                success |-> PriceMatches(call.displayed_price, call.expected_price)]
    /\ UNCHANGED atRest

PriceSpec == PriceInit /\ [][check_price]_vars

\* C24: price validation passes if and only if a displayed price is present
\* and equals the expected price exactly; a displayed price one cent above
\* or one cent below the expected price fails.
C24_ExactPriceEquality ==
    call.done =>
        /\ call.success <=>
              (call.displayed_price # {}
               /\ \A p \in call.displayed_price : p = call.expected_price)
        /\ call.displayed_price = {call.expected_price + 1} => ~call.success
        /\ call.displayed_price = {call.expected_price - 1} => ~call.success

C24_Witness ==
    /\ call.done
    /\ call.displayed_price = {call.expected_price - 1}
    /\ ~call.success

(* --------------------------- one click scan ---------------------------- *)

\* The selector lists _find_and_click is called with by the steps.
SelectorLists ==
    { AddToCartSelectors, SidePanelCheckoutSelectors, GoToCartSelectors,
      CartCheckoutSelectors, PlaceOrderSelectors }

\* One call of _find_and_click on its own: a page, a selector list, the
\* candidates visible, the candidates whose click raises, and whether the
\* publish of the step event raises.
ClickInit ==
    /\ \E site \in Sites, selectors \in SelectorLists, publish_raises \in BOOLEAN :
          \E visible \in SUBSET Elements(site, selectors) :
             \E raises \in SUBSET visible :
                call = [done |-> FALSE, site |-> site, selectors |-> selectors,
                        visible |-> visible, raises |-> raises,
                        publish_raises |-> publish_raises]
    /\ AtRest

find_and_click ==
    /\ ~call.done
    /\ call' = [done |-> TRUE, site |-> call.site, selectors |-> call.selectors,
                visible |-> call.visible, raises |-> call.raises,
                publish_raises |-> call.publish_raises,
                clicked |-> clicked_selectors(call.site, call.selectors,
                                call.visible, call.raises, call.publish_raises),
                returned |-> _find_and_click(call.site, call.selectors,
                                call.visible, call.raises, call.publish_raises) # 0]
    /\ UNCHANGED atRest

ClickSpec == ClickInit /\ [][find_and_click]_vars

\* C25: one call of _find_and_click clicks at most one candidate, and a
\* call that has clicked a candidate returns True.
C25_AtMostOneClick ==
    call.done =>
        /\ Len(call.clicked) <= 1
        /\ call.clicked # <<>> => call.returned

(* ------------------- validation failures are final --------------------- *)

\* The failure messages of _step_validate_seller and _step_validate_price.
SellerPriceFailures ==
    { "No featured offers available", "Invalid shipper", "Invalid seller",
      "Could not extract price from page", "Price mismatch" }

\* C26: once _step_validate_seller or _step_validate_price has returned a
\* failure, the same execute call extracts nothing more, navigates no more
\* and clicks nothing more: its only remaining step is the finally block,
\* and it returns that failure.
C26_ValidationFailureNotRetried ==
    [][ (flow.result # {} /\ TheResult.message \in SellerPriceFailures) =>
          /\ flow.pc = "finally"
          /\ flow'.pc = "returned"
          /\ flow'.result = flow.result
          /\ flow'.clicks = flow.clicks
          /\ flow'.seller_info = flow.seller_info
          /\ flow'.price_info = flow.price_info
          /\ flow'.aod_offer = flow.aod_offer
          /\ flow'.attempt = flow.attempt
          /\ flow'.page = flow.page ]_vars

\* execute has returned the failure of the price validation.
C26_Witness ==
    /\ flow.pc = "returned"
    /\ flow.result = {FlowResult(FALSE, ERROR, "Price mismatch")}
    /\ flow.seller_info # {}

(* --------------------------- bounded retries --------------------------- *)

\* The steps of execute in the order execute runs them.
StepOrder ==
    << "start", "setup", "open_product", "check_unavailable", "see_all", "aod",
       "validate_seller", "validate_price", "add", "add_to_cart",
       "cart_confirmation", "proceed_to_checkout", "cart_checkout",
       "on_checkout", "place_order", "await_confirmation", "placed",
       "except", "finally", "returned", "raised" >>

StepRank(pc) == CHOOSE i \in 1..Len(StepOrder) : StepOrder[i] = pc

\* The steps with a retry loop: _step_open_product, _step_add_to_cart and
\* the cart loop of _step_proceed_to_checkout.
RetryingSteps == { "open_product", "add_to_cart", "cart_checkout" }

\* C27: a retrying step makes at most MAX_RETRIES attempts (navigations,
\* add-to-cart scans, cart checkout scans) within one execute call: it is
\* entered with no attempt made, each step that stays in it is one more
\* attempt, and after MAX_RETRIES attempts it ends with a failure in state
\* Error (or raises into execute's handler).  Every other step moves on,
\* and no step is entered again after a later one has begun, so execute
\* terminates.
C27_RetriesBounded ==
    [][ /\ StepRank(flow'.pc) >= StepRank(flow.pc)
        /\ flow'.pc = flow.pc =>
              /\ flow.pc \in RetryingSteps
              /\ flow.attempt < MAX_RETRIES
              /\ flow'.attempt = flow.attempt + 1
        /\ (flow'.pc \in RetryingSteps /\ flow'.pc # flow.pc) => flow'.attempt = 0
        /\ (flow.pc \in RetryingSteps /\ flow.attempt >= MAX_RETRIES) =>
              /\ flow.attempt = MAX_RETRIES
              /\ flow'.clicks = flow.clicks
              /\ flow'.pc \in {"finally", "except"}
              /\ flow'.pc = "finally" =>
                    \A r \in flow'.result : ~r.success /\ r.state = ERROR
      ]_vars

\* The cart loop of _step_proceed_to_checkout has used up its attempts,
\* after _step_open_product and _step_add_to_cart had been passed.
C27_Witness ==
    /\ flow.pc = "cart_checkout"
    /\ flow.attempt = MAX_RETRIES
    /\ ClicksOn({"add_to_cart"}) # {}

(* ------------------------ end-to-end scenario A ------------------------ *)

\* A single-offer page shipped and sold by "Amazon.com" at the expected
\* price: the flow stayed on the product page, read that seller and that
\* price, found every control it had to click, and has waited for the
\* order confirmation.
ScenarioA ==
    /\ flow.item.url = "std"
    /\ ~flow.is_aod
    /\ flow.item.site.pinned = {}
    /\ flow.item.site.cards = <<>>
    /\ \E p \in flow.item.price :
          /\ flow.item.site.buybox = {Offer(AmazonCom, AmazonCom, p)}
          /\ flow.price_info = {[displayed_price |-> {p}]}
    /\ flow.seller_info = {Stored(SellerInfo(AmazonCom, AmazonCom), FALSE)}
    /\ flow.confirmation # "none"

\* C28 (as stated): in scenario A execute returns success=true with state
\* OrderPlaced or OrderPendingConfirmation (the order confirmation being
\* granted to a flow that clicks the place-order control itself, and the
\* step log after the order being written).
C28_ScenarioASucceeds ==
    (ScenarioA /\ flow.pc = "returned"
        /\ (~flow.confirm_final_order => flow.confirmation = "found")
        /\ TheResult.message # "Flow exception") =>
        /\ TheResult.success
        /\ TheResult.state \in {ORDER_PLACED, ORDER_PENDING_CONFIRMATION}

\* C28 (amended): in scenario A execute returns success=true with state
\* OrderPlaced when the order confirmation appears (or the failure "Flow
\* exception" when the step log after the order raises); when it does not
\* appear in time the result is success=false, with state
\* OrderPendingConfirmation under the confirmation gate and with state
\* Error without it.  No result is a success in state
\* OrderPendingConfirmation.
C28_ScenarioAOutcome ==
    (ScenarioA /\ flow.pc = "returned") =>
        /\ flow.confirmation = "found" =>
              TheResult \in
                 { FlowResult(TRUE, ORDER_PLACED, "Order placed successfully"),
                   FlowResult(FALSE, ERROR, "Flow exception") }
        /\ (flow.confirmation = "timeout" /\ flow.confirm_final_order) =>
              (~TheResult.success /\ TheResult.state = ORDER_PENDING_CONFIRMATION)
        /\ (flow.confirmation = "timeout" /\ ~flow.confirm_final_order) =>
              (~TheResult.success /\ TheResult.state = ERROR)
        /\ TheResult.success => TheResult.state = ORDER_PLACED

\* Scenario A has ended in a placed order under the confirmation gate.
C28_Witness ==
    /\ ScenarioA
    /\ flow.pc = "returned"
    /\ flow.confirm_final_order
    /\ TheResult = FlowResult(TRUE, ORDER_PLACED, "Order placed successfully")

(* ------------------------------- stop() -------------------------------- *)

\* stop() has been called on a started worker.
Stopped == ~worker.is_running /\ worker.pc # "init"

\* C29: once stop() has been called, the worker removes no further item
\* from the queue and starts no new flow.
C29_NoDequeueAfterStop ==
    [][ Stopped => (Len(queue') >= Len(queue) /\ started' = started) ]_vars

\* C30: after stop() has been called the worker loop eventually exits,
\* whether the worker was waiting for an item, paused, or awaiting a flow.
C30_StopEndsTheLoop == Stopped ~> (worker.pc = "stopped")

\* The loop has exited after a stop() that found the worker paused.
C30_Witness ==
    /\ worker.pc = "stopped"
    /\ ~worker.is_running
    /\ worker.is_paused

(* ------------------------- pause during a flow ------------------------- *)

\* The worker is paused while it awaits the execute of an item.
PausedInFlight ==
    /\ worker.is_paused
    /\ worker.is_running
    /\ browser.is_running
    /\ worker.pc = "executing"

C32_BuyNowSkipsCart ==
    ClicksOn({"buy_now"}) # {} =>
        /\ ClicksOn({"add_to_cart", "go_to_cart", "checkout"}) = {}
        /\ flow.state \notin {ADDING_TO_CART, WAITING_CART_CONFIRMATION,
                               PROCEEDING_TO_CHECKOUT}
        /\ \E info \in flow.seller_info :
              is_amazon_shipper(info) /\ is_valid_seller(info)
        /\ \A p \in flow.item.price :
              flow.price_info = {[displayed_price |-> {p}]}

(* ---------------------------- state order ------------------------------ *)

\* The order of the FlowState members a flow goes through.
FlowStateOrder ==
    << IDLE, OPENING_PRODUCT, ADDING_TO_CART, WAITING_CART_CONFIRMATION,
       PROCEEDING_TO_CHECKOUT, ON_CHECKOUT_PAGE, PLACING_ORDER,
       ORDER_PENDING_CONFIRMATION, ORDER_PLACED >>

StateRank(state) ==
    CHOOSE i \in 1..Len(FlowStateOrder) : FlowStateOrder[i] = state

\* C33: within one flow every state update keeps the current state, moves
\* to a later state of the order, or moves to Error; a flow in Error stays
\* in Error.
C33_StateMonotonic ==
    [][ \/ flow'.state = flow.state
        \/ flow'.state = ERROR
        \/ /\ flow.state # ERROR
           /\ StateRank(flow'.state) > StateRank(flow.state) ]_vars

\* A flow that went through the cart has ended with the order placed.
C33_Witness ==
    /\ flow.pc = "returned"
    /\ flow.state = ORDER_PLACED
    /\ flow.confirm_final_order
    /\ ClicksOn({"add_to_cart"}) # {}
    /\ ClicksOn({"checkout"}) # {}

(* ---------------------- result of one click scan ----------------------- *)

\* C34: _find_and_click returns True if and only if it has clicked a
\* candidate; the candidate clicked is the earliest selector in list order
\* whose element is visible and whose click does not raise; with no such
\* candidate it returns False and has clicked nothing.
C34_TrueIffClicked ==
    call.done =>
        LET hit(i) == Resolve(call.site, call.selectors[i])
                         \cap (call.visible \ call.raises) # {}
            hits == { i \in 1..Len(call.selectors) : hit(i) }
        IN  /\ call.returned <=> call.clicked # <<>>
            /\ call.returned =>
                  /\ Len(call.clicked) = 1
                  /\ call.clicked[1] \in hits
                  /\ \A j \in hits : call.clicked[1] <= j
            /\ hits = {} => (~call.returned /\ call.clicked = <<>>)

(* ------------------------- a flow for each item ------------------------ *)

\* C35: the flow the worker starts for an item is a newly constructed one:
\* state Idle, no seller snapshot, no price snapshot, and nothing else left
\* by the flow of an earlier item (no result, click, selected offer,
\* attempt count or confirmation); it is the flow of the item just taken.
C35_FreshFlowPerItem ==
    [][ started' # started =>
          /\ flow'.state = IDLE
          /\ flow'.seller_info = {}
          /\ flow'.price_info = {}
          /\ flow' = NewFlow(flow'.item, worker.confirm_final_order, "start")
          /\ flow'.item = queue[1]
          /\ started' = Append(started, flow'.item.id) ]_vars

\* The flow of a second item is about to start after the flow of the first
\* item has ended.
C35_Witness ==
    /\ Len(started) = 2
    /\ started[1] \in finished
    /\ flow.item.id = started[2]
    /\ flow.pc = "start"
    /\ flow.state = IDLE
    /\ flow.seller_info = {}

(* -------------------------- shape of results --------------------------- *)

\* C36: every FlowResult execute returns has success = TRUE exactly when
\* its state is OrderPlaced, and a failure has state Error or
\* OrderPendingConfirmation; no returned result carries Idle, Complete or
\* the state of an intermediate step.
C36_ResultShape ==
    flow.pc = "returned" =>
        /\ flow.result # {}
        /\ \A r \in flow.result :
              /\ r.success <=> r.state = ORDER_PLACED
              /\ ~r.success => r.state \in {ERROR, ORDER_PENDING_CONFIRMATION}
              /\ r.state \in {ORDER_PLACED, ERROR, ORDER_PENDING_CONFIRMATION}

\* execute has returned the failure of an exhausted add-to-cart step.
C36_Witness ==
    /\ flow.pc = "returned"
    /\ flow.result = {FlowResult(FALSE, ERROR, "Add to Cart button not found")}

(* --------------------------- reported status --------------------------- *)

\* C37: from pause() until the next resume() the status reported by the
\* event broker is PAUSED.
C37_PausedIsReported ==
    worker.is_paused => broker.current_state = PAUSED

(* ---------------------------- DiscordWatcher --------------------------- *)

\* The channels polled concurrently, and the ids of the chat messages their
\* last message elements show (the same message can be shown by both).
Channels == {"c1", "c2"}

MessageIds == {"m1", "m2"}

\* What _process_new_message finds in a message: parsed with Amazon URLs
\* and the rules say trigger / do not trigger; not parsed, with Amazon URLs
\* that pass / do not pass the keyword and URL filters; no Amazon URL.
Modes == {"rule_match", "rule_no_match", "legacy_match", "legacy_skip", "no_urls"}

\* The Amazon URLs of a message (duplicates removed, in order of appearance).
UrlsOf(mode) ==
    CASE mode = "rule_match" -> <<"aod", "std">>
      [] mode = "legacy_match" -> <<"std">>
      [] OTHER -> <<>>

IdlePoll == [pc |-> "idle"]

\* The watcher after start_watching has seeded the messages present at
\* startup; the worker does not run.
WatcherInit ==
    /\ \E dry_run \in BOOLEAN, seeded \in SUBSET MessageIds,
          messages \in [MessageIds -> Modes] :
          watcher = [dry_run |-> dry_run, seen |-> seeded, messages |-> messages,
                     polls |-> [c \in Channels |-> IdlePoll],
                     processed |-> <<>>, dropped |-> {}, would_trigger |-> {}]
    /\ WorkerAtRest
    /\ call = NoCall

\* A dry-run test that only the rule branch makes.
dry_run_in_rule_mode_only(w, source) == w.dry_run /\ source = "rule"

\* `if self.dry_run:` of the rule branch and of the legacy branch.
dry_run_test(w, source) == w.dry_run

\* What follows the seen test for a message that is processed: the
\* activity record of rule mode, the would-trigger event of a dry run, or
\* the URLs to put on the queue.
Processed(w, c, m) ==
    LET mode == w.messages[m]
        source == IF mode = "rule_match" THEN "rule" ELSE "legacy"
        marked == [w EXCEPT !.processed = Append(@, m)]
    IN  IF mode \in {"rule_match", "legacy_match"}
        THEN IF dry_run_test(w, source)
             THEN [marked EXCEPT !.would_trigger = @ \cup {m}]
             ELSE [marked EXCEPT !.polls[c] =
                      [pc |-> "put", message_id |-> m, urls |-> UrlsOf(mode),
                       source |-> source]]
        ELSE marked

\* A _process_new_message that does not record the id as seen.
_process_without_marking(c) ==
    /\ watcher.polls[c].pc = "idle"
    /\ \E m \in MessageIds :
          /\ watcher' = IF m \in watcher.seen
                        THEN [watcher EXCEPT !.dropped = @ \cup {m}]
                        ELSE Processed(watcher, c, m)
          /\ activity' = IF m \notin watcher.seen
                            /\ watcher.messages[m] \in {"rule_match", "rule_no_match"}
                         THEN add_activity_item(activity, create_activity_item(m))
                         ELSE activity
    /\ UNCHANGED <<queue, next_id, worker, flow, browser, broker, history,
                   traversal, call>>

\* _poll_channel hands a message element of channel c to
\* _process_new_message: a message whose id is in _seen_message_ids is
\* dropped; otherwise the id is added (no await between test and add) and
\* the message is processed.
_process_new_message(c) ==
    /\ watcher.polls[c].pc = "idle"
    /\ \E m \in MessageIds :
          /\ watcher' = IF m \in watcher.seen
                        THEN [watcher EXCEPT !.dropped = @ \cup {m}]
                        ELSE Processed([watcher EXCEPT !.seen = @ \cup {m}], c, m)
          /\ activity' = IF m \notin watcher.seen
                            /\ watcher.messages[m] \in {"rule_match", "rule_no_match"}
                         THEN add_activity_item(activity, create_activity_item(m))
                         ELSE activity
    /\ UNCHANGED <<queue, next_id, worker, flow, browser, broker, history,
                   traversal, call>>

\* One turn of `for url in amazon_urls`: amazon_url_detected is published
\* and the item is put on the queue.
put_url(c) ==
    /\ watcher.polls[c].pc = "put"
    /\ LET poll == watcher.polls[c]
           url == Head(poll.urls)
           price == IF poll.source = "rule" THEN {LowPrice} ELSE {}
       IN  /\ queue' = put(queue, WorkItem(poll.message_id, url, PageOf(url),
                                           price, poll.source))
           /\ watcher' = [watcher EXCEPT !.polls[c] =
                             IF Tail(poll.urls) = <<>> THEN IdlePoll
                             ELSE [poll EXCEPT !.urls = Tail(@)]]
    /\ UNCHANGED <<next_id, worker, flow, browser, broker, history, activity,
                   traversal, call>>

WatcherNext == \E c \in Channels : _process_new_message(c) \/ put_url(c)

WatcherSpec == WatcherInit /\ [][WatcherNext]_vars

\* C38: within one run of the watcher each message id is processed at most
\* once, and each URL of a message is put on the queue at most once,
\* whatever the interleaving of the channel polls.
C38_ProcessedOnce ==
    /\ \A i, j \in 1..Len(watcher.processed) :
          watcher.processed[i] = watcher.processed[j] => i = j
    /\ \A i, j \in 1..Len(queue) :
          (queue[i].id = queue[j].id /\ queue[i].url = queue[j].url) => i = j
    /\ \A c, d \in Channels :
          (watcher.polls[c].pc = "put" /\ watcher.polls[d].pc = "put"
             /\ watcher.polls[c].message_id = watcher.polls[d].message_id) => c = d

\* Both URLs of a message are on the queue, and a later poll has found the
\* message again.
C38_Witness ==
    /\ \E i, j \in 1..Len(queue) :
          i # j /\ queue[i].id = queue[j].id /\ queue[i].url # queue[j].url
    /\ \E i \in 1..Len(queue) : queue[i].id \in watcher.dropped
    /\ Len(watcher.processed) = 2
    /\ \A c \in Channels : watcher.polls[c].pc = "idle"

\* C39: a watcher with dry_run = true never puts an item on the queue, in
\* rule mode and in legacy mode; it publishes would-trigger events.
C39_DryRunQueuesNothing ==
    watcher.dry_run =>
        /\ queue = <<>>
        /\ \A c \in Channels : watcher.polls[c].pc = "idle"
        /\ \A i \in 1..Len(watcher.processed) :
              watcher.messages[watcher.processed[i]] \in {"rule_match", "legacy_match"}
                 => watcher.processed[i] \in watcher.would_trigger

\* A dry run has processed a rule-mode match and a legacy-mode match.
C39_Witness ==
    /\ watcher.dry_run
    /\ queue = <<>>
    /\ \E m, n \in watcher.would_trigger :
          watcher.messages[m] = "rule_match" /\ watcher.messages[n] = "legacy_match"

(* ------------------------------ EventBroker ---------------------------- *)

\* Scaled-down sizes: EventBroker(max_history=100), asyncio.Queue(maxsize=100).
max_history == 2

maxsize == 2

\* How many events are published and how many subscriptions are opened.
MaxEvents == 5

MaxSubscribers == 2

\* The coroutines that publish.
Publishers == {"watcher", "flow"}

\* The first n elements of a list.
FirstN(h, n) == SubSeq(h, 1, n)

\* h[-n:] of Python: the last n elements, and the whole list when n = 0.
LastN(h, n) ==
    IF n = 0 \/ n >= Len(h) THEN h ELSE SubSeq(h, Len(h) - n + 1, Len(h))

\* The broker after construction, with the events published so far and the
\* generators that subscribe() has started (their queue, what they have
\* yielded, where in the publish order they began and were dropped).
PublishInit ==
    /\ broker = [current_state |-> IDLE, current_urls |-> {}, worker_errors |-> 0,
                 flow_complete |-> {}, _history |-> <<>>, _subscribers |-> <<>>,
                 published |-> <<>>, generators |-> <<>>]
    /\ queue = <<>>
    /\ next_id = 1
    /\ worker = [pc |-> "init", is_running |-> FALSE, is_paused |-> FALSE,
                 confirm_final_order |-> TRUE]
    /\ flow = NoFlow
    /\ browser = [is_running |-> TRUE, amazon_page |-> FALSE, tracing |-> FALSE]
    /\ executing = {}
    /\ started = <<>>
    /\ finished = {}
    /\ faulted = {}
    /\ activity = {}
    /\ traversal = NoTraversal
    /\ call = NoCall
    /\ watcher = NoWatcher

notBroker ==
    <<queue, next_id, worker, flow, browser, executing, started, finished, faulted,
      activity, traversal, call, watcher>>

\* publish: the log line is printed (which can raise, before anything is
\* stored); then, with no suspension in between, the event is appended to
\* the history, the history is cut to its last max_history events, the
\* event is put on the queue of every subscriber, and the subscribers whose
\* queue raised QueueFull are removed.
publish(p) ==
    /\ Len(broker.published) < MaxEvents
    /\ \E raises \in BOOLEAN :
          IF raises THEN UNCHANGED broker
          ELSE LET event == [id |-> Len(broker.published) + 1, from |-> p]
                   appended == Append(broker._history, event)
                   subscribed == {broker._subscribers[i] :
                                     i \in 1..Len(broker._subscribers)}
                   dead == {g \in subscribed :
                               Len(broker.generators[g].queue) >= maxsize}
               IN  broker' = [broker EXCEPT
                      !.published = Append(@, event),
                      !._history = IF Len(appended) > max_history
                                   THEN LastN(appended, max_history)
                                   ELSE appended,
                      !.generators = [g \in DOMAIN @ |->
                          IF g \in dead
                          THEN [@[g] EXCEPT !.full_at = event.id]
                          ELSE IF g \in subscribed
                          THEN [@[g] EXCEPT !.queue = Append(@, event)]
                          ELSE @[g]],
                      !._subscribers = SelectSeq(@, LAMBDA g : g \notin dead)]
    /\ UNCHANGED notBroker

\* subscribe, up to the first queue.get(): a queue is created and appended
\* to _subscribers.
subscribe ==
    /\ Len(broker.generators) < MaxSubscribers
    /\ broker' = [broker EXCEPT
          !.generators = Append(@, [since |-> Len(broker.published), queue |-> <<>>,
                                    got |-> <<>>, open |-> TRUE, full_at |-> 0]),
          !._subscribers = Append(@, Len(broker.generators) + 1)]
    /\ UNCHANGED notBroker

\* `event = await queue.get(); yield event` of generator g.
subscriber_get(g) ==
    /\ broker.generators[g].open
    /\ broker.generators[g].queue # <<>>
    /\ broker' = [broker EXCEPT
          !.generators[g].got = Append(@, Head(broker.generators[g].queue)),
          !.generators[g].queue = Tail(@)]
    /\ UNCHANGED notBroker

\* The consumer closes generator g: the finally block removes its queue
\* from _subscribers if it is still there.
subscriber_close(g) ==
    /\ broker.generators[g].open
    /\ broker' = [broker EXCEPT
          !.generators[g].open = FALSE,
          !._subscribers = SelectSeq(@, LAMBDA h : h # g)]
    /\ UNCHANGED notBroker

PublishNext ==
    \/ \E p \in Publishers : publish(p)
    \/ subscribe
    \/ \E g \in DOMAIN broker.generators : subscriber_get(g) \/ subscriber_close(g)

PublishSpec == PublishInit /\ [][PublishNext]_vars

\* The events published from number a to number b, in publish order.
PublishedFrom(a, b) == SubSeq(broker.published, a, b)

\* C40: the history holds at most max_history events and is exactly the
\* most recent published events in publish order; a subscriber that has
\* not been dropped has received, in publish order, every event published
\* since it subscribed; a subscriber whose queue was full at a publish is
\* no longer subscribed and has received the events before that publish
\* and none after.
C40_HistoryAndDelivery ==
    LET n == Len(broker.published)
        subscribed == {broker._subscribers[i] : i \in 1..Len(broker._subscribers)}
    IN  /\ Len(broker._history) <= max_history
        /\ Len(broker._history) = IF n < max_history THEN n ELSE max_history
        /\ broker._history = PublishedFrom(n - Len(broker._history) + 1, n)
        /\ \A g \in DOMAIN broker.generators :
              LET gen == broker.generators[g]
                  received == gen.got \o gen.queue
              IN  /\ (gen.open /\ gen.full_at = 0) =>
                        /\ g \in subscribed
                        /\ received = PublishedFrom(gen.since + 1, n)
                  /\ gen.full_at # 0 =>
                        /\ g \notin subscribed
                        /\ received = PublishedFrom(gen.since + 1, gen.full_at - 1)
                  /\ ~gen.open => g \notin subscribed

\* The history has been cut, one subscriber has been dropped with a full
\* queue and events were published after that, and another subscriber is
\* still served.
C40_Witness ==
    /\ Len(broker.published) > max_history
    /\ \E g, h \in DOMAIN broker.generators :
          /\ broker.generators[g].full_at # 0
          /\ broker.generators[g].full_at < Len(broker.published)
          /\ broker.generators[h].open /\ broker.generators[h].full_at = 0
          /\ broker.generators[h].got # <<>>

====
